---- MODULE Spec2Model ----
(***************************************************************************)
(* The Stampede loader (Pegasus/db/modules/stampede_loader.py, class       *)
(* Analyzer) as a state machine.  One loader instance feeds trace records  *)
(* into a relational store, either immediately or through a batch buffer.  *)
(*                                                                         *)
(* The loader's fields and the store are the variables.  Every handler is  *)
(* an operator from loader state to loader state, written in the order of  *)
(* the statements of the Python method it models; an action applies        *)
(* process(linedata) or finish() as a whole.                               *)
(***************************************************************************)
EXTENDS Integers, Sequences, FiniteSets, TLC

(***************************************************************************)
(* Bounds of the model.                                                    *)
(***************************************************************************)
\* number of records the feeder delivers before it stops
MaxRecords == 3
\* store accesses of one call whose outcome the environment chooses
MaxAttempts == 5
\* the interpreter's recursion limit, in frames of check_connection
RecursionLimit == 3
\* stand-in for self._flush_every = 1000 (line 117): flush after this many
\* process() calls
FlushEvery == 3
\* stand-in for the 30 s of check_flush (line 273), in clock ticks
FlushInterval == 1
\* records delivered where one record decides the property (a state label)
LabelRecords == MaxRecords - 2
\* records delivered in the end-to-end scenario
ScenarioRecords == MaxRecords + 2

(***************************************************************************)
(* Values.                                                                 *)
(***************************************************************************)
\* Python's None for a surrogate key (ids start at 1)
None == 0
\* None for a UUID field
NoUuid == "none"

Uuids == {"W1", "W2"}
\* (site, hostname, ip)
HostTuples == {<<"siteA", "hostA", "10.0.0.1">>, <<"siteB", "hostB", "10.0.0.2">>}
NoHost == <<"", "", "">>
\* the status field of a record: {} when the record carries none
NoStatus == {}
\* None for a scheduler id
NoSched == ""
Statuses == {NoStatus, {0 - 1}, {0}, {1}}

(***************************************************************************)
(* Records (linedata).  One shape for all events; a field an event does    *)
(* not carry holds its None.                                               *)
(***************************************************************************)
LD(event, xwf) ==
    [event |-> event, ts |-> 1, xwf_id |-> xwf, root_xwf_id |-> NoUuid,
     parent_xwf_id |-> NoUuid, job_id |-> "", job_inst_id |-> 0, status |-> NoStatus,
     exitcode |-> NoStatus, shi |-> NoHost, task_id |-> "", other_id |-> "",
     subwf_id |-> NoUuid, inv_id |-> 1, sched_id |-> NoSched, metric |-> 0]

(***************************************************************************)
(* Small helpers on functions and sequences.                               *)
(***************************************************************************)
Put(f, k, v) == [x \in DOMAIN f \cup {k} |-> IF x = k THEN v ELSE f[x]]
Drop(f, K) == [x \in DOMAIN f \ K |-> f[x]]
EmptyMap == [x \in {} |-> 0]
One(S) == CHOOSE x \in S : TRUE
MaxOf(S) == IF S = {} THEN 0 ELSE CHOOSE x \in S : \A y \in S : y <= x
MinOf(S) == CHOOSE x \in S : \A y \in S : x <= y
Range(q) == {q[i] : i \in 1 .. Len(q)}
\* F applied to the value of v: "x = v; return F(x)"
Bind(v, F(_)) == CHOOSE y \in {F(x) : x \in {v}} : TRUE

(***************************************************************************)
(* The store.  A table is a set of rows.  The schema (Pegasus.db.schema)   *)
(* is outside the inspected source: primary keys, the natural-key          *)
(* uniqueness constraints and the non-null parent references follow the    *)
(* data model of the specification.                                        *)
(***************************************************************************)
Tables == {"workflow", "workflowstate", "job", "job_edge", "task", "task_edge",
           "job_instance", "jobstate", "host", "invocation", "job_metrics"}

EmptyDb == [t \in Tables |-> {}]

\* surrogate primary key column of a table ("" when the table has none)
PK == [workflow |-> "wf_id", workflowstate |-> "", job |-> "job_id", job_edge |-> "",
       task |-> "task_id", task_edge |-> "", job_instance |-> "job_instance_id",
       jobstate |-> "", host |-> "host_id", invocation |-> "invocation_id",
       job_metrics |-> "job_metrics_id"]

\* natural key of a table (none for the measurements: the handler looks for
\* the earlier row itself)
UK == [workflow |-> {"wf_uuid"},
       workflowstate |-> {"wf_id", "state", "timestamp"},
       job |-> {"wf_id", "exec_job_id"},
       job_edge |-> {"wf_id", "parent_exec_job_id", "child_exec_job_id"},
       task |-> {"wf_id", "abs_task_id"},
       task_edge |-> {"wf_id", "parent_abs_task_id", "child_abs_task_id"},
       job_instance |-> {"job_id", "job_submit_seq"},
       jobstate |-> {"job_instance_id", "state", "timestamp"},
       host |-> {"wf_id", "shi"},
       invocation |-> {"job_instance_id", "task_submit_seq"},
       job_metrics |-> {}]

\* parent references that the store refuses when null
FK == [workflow |-> {},
       workflowstate |-> {"wf_id"},
       job |-> {"wf_id"},
       job_edge |-> {"wf_id"},
       task |-> {"wf_id"},
       task_edge |-> {"wf_id"},
       job_instance |-> {"job_id"},
       jobstate |-> {"job_instance_id"},
       host |-> {"wf_id"},
       invocation |-> {"job_instance_id", "wf_id"},
       job_metrics |-> {"job_instance_id"}]

\* the parent references of a row that are null
NullParents(table, row) == {f \in FK[table] : row[f] = None}

\* an INSERT of row into table raises IntegrityError
Violates(db, table, row) ==
    \/ NullParents(table, row) # {}
    \/ UK[table] # {} /\ \E r \in db[table] : \A f \in UK[table] : r[f] = row[f]

NextId(db, table) == MaxOf({r[PK[table]] : r \in db[table]}) + 1

\* the row as stored: with its surrogate key assigned
Stored(db, table, row) ==
    IF PK[table] = "" THEN row
    ELSE [k \in DOMAIN row \cup {PK[table]} |->
             IF k = PK[table] THEN NextId(db, table) ELSE row[k]]

\* INSERT (the caller has checked Violates)
Insert(db, table, row) == [db EXCEPT ![table] = @ \cup {Stored(db, table, row)}]

(***************************************************************************)
(* Loader state as one record; the variables below hold its fields.        *)
(***************************************************************************)
NoObs == [nflush |-> 0, purged |-> {}, rowfail |-> 0, flushed |-> <<>>, mapped |-> 0,
          check |-> [ran |-> FALSE, count |-> 0, buffered |-> 0, late |-> FALSE],
          guard |-> <<>>, steps |-> <<>>, lost |-> <<>>,
          net |-> [todo |-> <<>>, rest |-> TRUE]]

\* The store's side of the connection during one call: the outcomes of the
\* store accesses the call makes, in order (TRUE: the access succeeds, FALSE:
\* it raises OperationalError), and the outcome of every access after those.
AlwaysUp == [todo |-> <<>>, rest |-> TRUE]

\* the next store access succeeds
Up(s) == IF s.net.todo = <<>> THEN s.net.rest ELSE Head(s.net.todo)

\* a store access was made
Used(s) == IF s.net.todo = <<>> THEN s ELSE [s EXCEPT !.net.todo = Tail(@)]

\* what a call did about the connection: guard has one entry per call of
\* check_connection() from outside itself (where it was called, the backoff
\* waits and the nesting depth it reached), steps is the order of guard
\* calls, dispatches and flushes, lost lists the places where an
\* OperationalError was raised, net is what the store was given to answer
GuardAt == [process |-> "check_connection@process",
            hard_flush |-> "check_connection@hard_flush",
            except |-> "check_connection@except"]
Step(s, what) == [s EXCEPT !.obs.steps = Append(@, what)]
Dropped(s, where) == [s EXCEPT !.obs.lost = Append(@, where)]

EmptyBatchCache == [batch_events |-> <<>>, update_events |-> <<>>, host_map_events |-> <<>>]

Log(s, level, msg) == [s EXCEPT !.log = Append(@, <<level, msg>>)]

\* session.rollback(): changes made to loaded rows and not yet committed are lost
rollback(s) == [s EXCEPT !.pending = EmptyMap]

\* session.commit() without a new row: the pending changes of loaded rows are written
ApplyPending(db, pending) ==
    [t \in Tables |->
        {IF PK[t] # "" /\ <<t, r[PK[t]]>> \in DOMAIN pending
            THEN [k \in DOMAIN r |->
                     IF k \in DOMAIN pending[<<t, r[PK[t]]>>]
                        THEN pending[<<t, r[PK[t]]>>][k] ELSE r[k]]
            ELSE r : r \in db[t]}]

commit(s) == [s EXCEPT !.db = ApplyPending(s.db, s.pending), !.pending = EmptyMap]

\* o.commit_to_db(session): session.add(o); session.commit().  Raises
\* IntegrityError (s.exc) when the store refuses the row.
commit_to_db(s, o) ==
    IF ~Up(s)
    THEN [Dropped(Used(s), "commit_to_db") EXCEPT !.exc = "OperationalError"]
    ELSE IF Violates(s.db, o.table, o.row)
    THEN [Used(s) EXCEPT !.exc = "IntegrityError"]
    ELSE commit([Used(s) EXCEPT !.db = Insert(@, o.table, o.row)])

(***************************************************************************)
(* check_connection (lines 277-293).  session.is_active is false only      *)
(* after a failed flush inside the transaction; the failure here comes     *)
(* from session.connection(), so the rollback of line 283 is not taken.    *)
(***************************************************************************)
\* a backoff wait of the running guard call: time.sleep(5)
Wait(s) ==
    [s EXCEPT !.obs.guard[Len(s.obs.guard)].waits = @ + 1]

Nested(s, depth) ==
    [s EXCEPT !.obs.guard[Len(s.obs.guard)].depth = depth]

\* one frame of check_connection(sub); depth counts the frames below the
\* first.  Past the interpreter's recursion limit the call raises
\* RuntimeError (maximum recursion depth exceeded).
RECURSIVE check_connection_frame(_, _, _)
check_connection_frame(s, sub, depth) ==
    IF depth > RecursionLimit THEN [s EXCEPT !.exc = "RuntimeError"]
    \* self.session.connection().closed
    ELSE IF Up(s) THEN Used(Nested(s, depth))
    ELSE
    Bind(Wait(Log(Used(Nested(s, depth)), "error", "Lost connection - attempting reconnect")),
         LAMBDA s1 :
    \* self.session.connection().connect()
    Bind(IF Up(s1) THEN Used(s1)
         ELSE check_connection_frame(Used(s1), TRUE, depth + 1), LAMBDA s2 :
    IF s2.exc # "" \/ sub THEN s2
    ELSE Log(s2, "warning", "Connection re-established")))

\* self.check_connection(), called at site
check_connection(s, site) ==
    check_connection_frame(
        Step([s EXCEPT !.obs.guard = Append(@, [site |-> site, waits |-> 0, depth |-> 0])],
             GuardAt[site]),
        FALSE, 0)


(***************************************************************************)
(* DB helper/lookup/caching functions.  A resolver returns the loader      *)
(* state after the call (s) and the value returned (v).                    *)
(***************************************************************************)
wf_uuid_to_id(s, wf_uuid) ==
    IF wf_uuid \in DOMAIN s.wf_id_cache
    THEN [s |-> s, v |-> s.wf_id_cache[wf_uuid]]
    ELSE LET rows == {r \in s.db.workflow : r.wf_uuid = wf_uuid} IN
         IF Cardinality(rows) = 1
         THEN [s |-> [s EXCEPT !.wf_id_cache = Put(@, wf_uuid, One(rows).wf_id)],
               v |-> One(rows).wf_id]
         ELSE [s |-> Log(s, "error", "No wf_id results for wf_uuid"), v |-> None]

wf_uuid_to_root_id(s, wf_uuid) ==
    IF wf_uuid \in DOMAIN s.root_wf_id_cache
    THEN [s |-> s, v |-> s.root_wf_id_cache[wf_uuid]]
    ELSE LET rows == {r \in s.db.workflow : r.wf_uuid = wf_uuid} IN
         IF Cardinality(rows) = 1
         THEN [s |-> [s EXCEPT !.root_wf_id_cache = Put(@, wf_uuid, One(rows).root_wf_id)],
               v |-> One(rows).root_wf_id]
         ELSE [s |-> Log(s, "error", "No wf_id results for wf_uuid"), v |-> None]

get_job_id(s, wf_id, exec_id) ==
    IF <<wf_id, exec_id>> \in DOMAIN s.job_id_cache
    THEN [s |-> s, v |-> s.job_id_cache[<<wf_id, exec_id>>]]
    ELSE LET rows == {r \in s.db.job : r.wf_id = wf_id /\ r.exec_job_id = exec_id} IN
         IF Cardinality(rows) = 1
         THEN [s |-> [s EXCEPT !.job_id_cache = Put(@, <<wf_id, exec_id>>, One(rows).job_id)],
               v |-> One(rows).job_id]
         ELSE [s |-> Log(s, "error", "No results found for wf_uuid/exec_job_id"), v |-> None]

\* the part of get_job_instance_id after cached_job_id is known
job_instance_id_of(s, cached_job_id, job_submit_seq, quiet) ==
    LET uniqueIdIdx == <<cached_job_id, job_submit_seq>>
        rows == {r \in s.db.job_instance :
                    r.job_id = cached_job_id /\ r.job_submit_seq = job_submit_seq}
    IN  IF uniqueIdIdx \in DOMAIN s.job_instance_id_cache
        THEN [s |-> s, v |-> s.job_instance_id_cache[uniqueIdIdx]]
        ELSE IF Cardinality(rows) = 1
        THEN [s |-> [s EXCEPT !.job_instance_id_cache =
                                 Put(@, uniqueIdIdx, One(rows).job_instance_id)],
              v |-> One(rows).job_instance_id]
        ELSE [s |-> IF quiet THEN s
                    ELSE Log(s, "error", "No job_instance_id results for tuple"),
              v |-> None]

\* o: a mapper object with wf_uuid, exec_job_id and job_submit_seq
get_job_instance_id(s, o, quiet) ==
    Bind(wf_uuid_to_id(s, o.wf_uuid), LAMBDA r1 :
    Bind(get_job_id(r1.s, r1.v, o.exec_job_id), LAMBDA r2 :
    job_instance_id_of(r2.s, r2.v, o.job_submit_seq, quiet)))

\* a change made to a loaded row; it is written by the next session.commit()
SetPending(s, table, id, cols) ==
    LET old == IF <<table, id>> \in DOMAIN s.pending THEN s.pending[<<table, id>>]
               ELSE EmptyMap
        new == [k \in DOMAIN old \cup DOMAIN cols |->
                   IF k \in DOMAIN cols THEN cols[k] ELSE old[k]]
    IN  [s EXCEPT !.pending = Put(@, <<table, id>>, new)]

\* map_host_of without the look into host_cache: every event updates
map_host_of_always(s, cached_job_id, host) ==
    LET key == <<cached_job_id, host.job_submit_seq>>
        hosts == {h \in s.db.host : h.wf_id = host.row.wf_id /\ h.shi = host.row.shi}
        instances == {r \in s.db.job_instance :
                         r.job_id = cached_job_id /\ r.job_submit_seq = host.job_submit_seq}
    IN  IF hosts = {} \/ Cardinality(instances) # 1
        THEN [s EXCEPT !.exc = "NoResultFound"]
        ELSE Bind(SetPending(s, "job_instance", One(instances).job_instance_id,
                             [host_id |-> One(hosts).host_id]),
                  LAMBDA s4 :
                    [(IF s4.batch THEN s4 ELSE commit(s4)) EXCEPT
                        !.host_cache = Put(@, key, TRUE), !.obs.mapped = @ + 1])

\* the part of map_host_to_job_instance after cached_job_id is known
map_host_of(s, cached_job_id, host) ==
    LET key == <<cached_job_id, host.job_submit_seq>>
        hosts == {h \in s.db.host : h.wf_id = host.row.wf_id /\ h.shi = host.row.shi}
        instances == {r \in s.db.job_instance :
                         r.job_id = cached_job_id /\ r.job_submit_seq = host.job_submit_seq}
        host_id == IF Cardinality(hosts) > 1 THEN None ELSE One(hosts).host_id
        logged == IF Cardinality(hosts) > 1
                  THEN Append(s.log, <<"error", "Multiple host_id results for host">>)
                  ELSE s.log
    IN  IF key \in DOMAIN s.host_cache THEN s
        \* query(Host.host_id)....one() and query(JobInstance)....one()
        ELSE IF hosts = {} \/ Cardinality(instances) # 1
        THEN [s EXCEPT !.exc = "NoResultFound", !.log = logged]
        ELSE Bind(SetPending([s EXCEPT !.log = logged], "job_instance",
                             One(instances).job_instance_id, [host_id |-> host_id]),
                  LAMBDA s4 :
                    \* job_instance.merge_to_db(self.session, batch=self._batch)
                    [(IF s4.batch THEN s4 ELSE commit(s4)) EXCEPT
                        !.host_cache = Put(@, key, TRUE), !.obs.mapped = @ + 1])

\* host: the Host object of a host.info event (Obj below)
map_host_to_job_instance(s, host) ==
    Bind(wf_uuid_to_id(s, host.wf_uuid), LAMBDA r1 :
    Bind(get_job_id(r1.s, r1.v, host.exec_job_id), LAMBDA r2 :
    map_host_of(r2.s, r2.v, host)))

\* Python compares the first component of a host_cache key, a job id (int),
\* with wfs.wf_uuid, a string: never equal
JobIdEqualsUuid(job_id, wf_uuid) == FALSE

\* wfs: the Workflowstate object of an xwf.end event (Obj below)
flushCaches(s, wfs) ==
    [s EXCEPT
        !.wf_id_cache = Drop(@, {k \in DOMAIN @ : k = wfs.wf_uuid}),
        !.root_wf_id_cache = Drop(@, {k \in DOMAIN @ : k = wfs.wf_uuid}),
        !.job_instance_id_cache = Drop(@, {k \in DOMAIN @ : k[1] = wfs.row.wf_id}),
        !.host_cache = Drop(@, {k \in DOMAIN @ : JobIdEqualsUuid(k[1], wfs.wf_uuid)}),
        !.job_id_cache = Drop(@, {k \in DOMAIN @ : k[1] = wfs.row.wf_id}),
        !.task_map_flush = @ \ {wfs.wf_uuid},
        !.obs.purged = @ \cup {wfs.wf_uuid}]


(***************************************************************************)
(* Methods to handle batching/flushing.                                    *)
(***************************************************************************)
reset_flush_state(s) ==
    IF s.batch THEN [s EXCEPT !.flush_count = 0, !.since_last_flush = 0] ELSE s

\* session.add(o): the INSERT is part of the open transaction; a refused row
\* makes the commit raise IntegrityError
session_add(s, o) ==
    IF s.exc # "" THEN s
    ELSE IF Violates(s.db, o.table, o.row) THEN [s EXCEPT !.exc = "IntegrityError"]
    ELSE [s EXCEPT !.db = Insert(@, o.table, o.row)]

\* session.merge(o) of a JobInstance object: an UPDATE of the row with o's
\* primary key; without such a row the object is new and is INSERTed
session_merge(s, o) ==
    IF s.exc # "" THEN s
    ELSE IF o.row.job_instance_id # None
            /\ \E r \in s.db.job_instance : r.job_instance_id = o.row.job_instance_id
    THEN SetPending(s, "job_instance", o.row.job_instance_id, [exitcode |-> o.row.exitcode])
    ELSE session_add(s, [o EXCEPT !.row = [k \in DOMAIN o.row \ {"job_instance_id"} |-> o.row[k]]])

\* OperationalError is not caught here: it leaves hard_flush
individual_commit(s0, event, merge) ==
    IF s0.exc = "OperationalError" THEN s0
    ELSE IF ~Up(s0)
    THEN [Dropped(Used(s0), "individual_commit") EXCEPT !.exc = "OperationalError"]
    ELSE
    Bind(Used(s0), LAMBDA s :
    Bind(IF merge THEN session_merge(s, event) ELSE session_add(s, event), LAMBDA r :
    IF r.exc = "IntegrityError"
    THEN rollback([Log(s, "error", "Insert failed for event") EXCEPT !.obs.rowfail = @ + 1])
    ELSE commit(r)))

\* the loops of lines 324-336 over one buffer
RECURSIVE flush_events(_, _, _, _, _)
flush_events(s, events, i, batch_flush, merge) ==
    IF i > Len(events) \/ s.exc = "OperationalError" THEN s
    \* an object that individual_commit stored and expunged in an earlier
    \* attempt of this call has its primary key: adding it again writes nothing
    ELSE IF ~merge /\ i \in s.expunged
    THEN flush_events(s, events, i + 1, batch_flush, merge)
    ELSE Bind(IF batch_flush
              THEN (IF merge THEN session_merge(s, events[i]) ELSE session_add(s, events[i]))
              ELSE Bind(individual_commit(s, events[i], merge), LAMBDA r :
                   IF ~merge /\ r.exc = "" /\ r.obs.rowfail = s.obs.rowfail
                   THEN [r EXCEPT !.expunged = @ \cup {i}] ELSE r),
              LAMBDA s1 : flush_events(s1, events, i + 1, batch_flush, merge))

RECURSIVE map_hosts(_, _, _)
map_hosts(s, hosts, i) ==
    IF i > Len(hosts) \/ s.exc # "" THEN s
    ELSE Bind(map_host_to_job_instance(s, hosts[i]), LAMBDA s1 : map_hosts(s1, hosts, i + 1))

RECURSIVE flush_end_events(_, _, _)
flush_end_events(s, end_event, i) ==
    IF i > Len(end_event) THEN s
    ELSE Bind(flushCaches(s, end_event[i]), LAMBDA s1 : flush_end_events(s1, end_event, i + 1))

IsEndEvent(e) == e.event = "stampede.xwf.end"

\* lines 351-363 of hard_flush: the host mappings, the cache flushes for the
\* end events seen, clearing the buffers, the last commit
\* the end of hard_flush without the cache flushes for the end events
hard_flush_end_keeping_caches(s3, end_event) ==
    Bind(map_hosts(s3, s3.batch_cache.host_map_events, 1), LAMBDA s4 :
    IF s4.exc # "" THEN s4
    ELSE reset_flush_state(commit([s4 EXCEPT !.batch_cache = EmptyBatchCache])))

\* self.session.commit() of line 362, after the buffers were cleared: it
\* writes the host mappings and whatever else is pending; OperationalError
\* is not caught
last_commit(s) ==
    IF s.pending = EmptyMap THEN s
    ELSE IF ~Up(s) THEN [Dropped(Used(s), "last_commit") EXCEPT !.exc = "OperationalError"]
    ELSE commit(Used(s))

hard_flush_end(s3, end_event) ==
    Bind(map_hosts(s3, s3.batch_cache.host_map_events, 1), LAMBDA s4 :
    IF s4.exc # "" THEN s4
    ELSE Bind(flush_end_events(s4, end_event, 1), LAMBDA s5 :
         Bind(last_commit([s5 EXCEPT !.batch_cache = EmptyBatchCache, !.expunged = {}]),
              LAMBDA s6 :
         IF s6.exc # "" THEN s6
         ELSE Step(reset_flush_state(s6), "hard_flush.end"))))

\* hard_flush(batch_flush=False), as called from the except clause of line 340:
\* every row is committed on its own
hard_flush_per_event(s) ==
    Bind(check_connection(Step(s, "hard_flush"), "hard_flush"), LAMBDA s0 :
    IF s0.exc # "" THEN s0
    ELSE
    Bind(flush_events(s0, s0.batch_cache.batch_events, 1, FALSE, FALSE), LAMBDA s1 :
    Bind(flush_events(s1, s0.batch_cache.update_events, 1, FALSE, TRUE), LAMBDA s2 :
    IF s2.exc # "" THEN s2
    ELSE
    Bind(commit(s2), LAMBDA s3 :
    hard_flush_end(s3, SelectSeq(s0.batch_cache.batch_events, IsEndEvent))))))

\* the try of lines 338-349: self.session.commit() of the bulk transaction
\* the try of lines 338-349 without the per-event retry: the refused batch is
\* rolled back and given up
bulk_commit_giving_up(s0, s2) ==
    IF s2.exc = "IntegrityError"
    THEN rollback(Log([s2 EXCEPT !.db = s0.db, !.exc = ""],
                      "error", "Integrity error on batch flush"))
    ELSE commit(s2)

\* the commit has something to send to the store
HasWrites(s0, s2) == s2.db # s0.db \/ s2.pending # EmptyMap \/ s2.exc = "IntegrityError"

RECURSIVE hard_flush(_)
bulk_commit(s0, s2) ==
    IF HasWrites(s0, s2) /\ ~Up(s2)
    THEN \* except exc.OperationalError: rollback, then the whole flush again
         Bind(rollback(Log(Dropped([Used(s2) EXCEPT !.db = s0.db, !.exc = ""], "commit"),
                           "error", "Connection problem during commit: reattempting batch")),
              LAMBDA s : hard_flush(s))
    ELSE IF s2.exc = "IntegrityError"
    THEN \* rollback, then the whole flush again, per event
         Bind(rollback(Log([Used(s2) EXCEPT !.db = s0.db, !.exc = ""],
                           "error", "Integrity error on batch flush")),
              LAMBDA s : hard_flush_per_event(s))
    ELSE commit(IF HasWrites(s0, s2) THEN Used(s2) ELSE s2)

\* hard_flush(batch_flush=True)
hard_flush(s) ==
    IF ~s.batch THEN s
    ELSE
    Bind(check_connection(Step(s, "hard_flush"), "hard_flush"), LAMBDA s0 :
    IF s0.exc # "" THEN s0
    ELSE
    Bind(flush_events(s0, s0.batch_cache.batch_events, 1, TRUE, FALSE), LAMBDA s1 :
    Bind(flush_events(s1, s0.batch_cache.update_events, 1, TRUE, TRUE), LAMBDA s2 :
    Bind(bulk_commit(s0, s2), LAMBDA s3 :
    IF s3.exc # "" THEN s3
    ELSE hard_flush_end(s3, SelectSeq(s0.batch_cache.batch_events, IsEndEvent))))))

\* hard_flush() as the handlers, check_flush and finish call it; the
\* observation records that a flush ran and what it was given
run_hard_flush(s) ==
    IF ~s.batch THEN s
    ELSE Bind([s EXCEPT !.obs.nflush = @ + 1, !.obs.flushed = s.batch_cache.batch_events],
              LAMBDA s0 : hard_flush(s0))

\* check_flush with the count test off by one: it flushes one call early
check_flush_early(s) ==
    IF ~s.batch THEN s
    ELSE
    Bind([s EXCEPT !.flush_count = @ + 1], LAMBDA s1 :
    IF s1.flush_count + 1 >= FlushEvery \/ s1.since_last_flush > FlushInterval
    THEN run_hard_flush(s1) ELSE s1)

check_flush(s) ==
    IF ~s.batch THEN s
    ELSE
    Bind([s EXCEPT !.flush_count = @ + 1], LAMBDA s1 :
    LET late == s1.since_last_flush > FlushInterval
        seen(ran) == [ran |-> ran, count |-> s1.flush_count,
                      buffered |-> Len(s1.batch_cache.batch_events), late |-> late]
    IN  IF s1.flush_count >= FlushEvery
        THEN [run_hard_flush(s1) EXCEPT !.obs.check = seen(TRUE)]
        ELSE IF late
        THEN [run_hard_flush(s1) EXCEPT !.obs.check = seen(TRUE)]
        ELSE [s1 EXCEPT !.obs.check = seen(FALSE)])

(***************************************************************************)
(* Methods to handle the various insert events.                            *)
(***************************************************************************)
\* linedataToObject(linedata, T()): the mapper object of a record, with the
\* attributes the loader reads (renamed as attr_remap does) and the row it
\* stands for
Obj(table, linedata, row) ==
    [table |-> table, event |-> linedata.event, wf_uuid |-> linedata.xwf_id,
     exec_job_id |-> linedata.job_id, job_submit_seq |-> linedata.job_inst_id,
     row |-> row]

NoRow == [x \in {} |-> 0]

\* "if self._batch: self._batch_cache['batch_events'].append(o)
\*  else: o.commit_to_db(self.session)"
batch_or_commit(s, o) ==
    IF s.batch THEN [s EXCEPT !.batch_cache.batch_events = Append(@, o)]
    ELSE commit_to_db(s, o)

\* lines 417-421 of workflow(), after the first commit_to_db
workflow_root(s3, linedata, is_root, root_wf_id) ==
    IF ~is_root
    THEN IF root_wf_id = None
         THEN Log(s3, "warn", "Count not determine root_wf_id for event") ELSE s3
    ELSE Bind(wf_uuid_to_id(s3, linedata.root_xwf_id), LAMBDA r4 :
         LET own == {r \in r4.s.db.workflow : r.wf_uuid = linedata.xwf_id}
             s5 == commit(SetPending(r4.s, "workflow", One(own).wf_id,
                                     [root_wf_id |-> r4.v]))
         IN  IF r4.v = None
             THEN Log(s5, "warn", "Count not determine root_wf_id for event") ELSE s5)

\* workflow() that hands the row to the write path of the other handlers: in
\* batched mode the row waits in the insert buffer
workflow_batched(s, linedata) ==
    LET is_root == linedata.root_xwf_id = linedata.xwf_id IN
    Bind(IF ~is_root THEN wf_uuid_to_id(s, linedata.root_xwf_id)
         ELSE [s |-> s, v |-> None], LAMBDA r1 :
    Bind(IF linedata.parent_xwf_id # NoUuid
         THEN wf_uuid_to_id(r1.s, linedata.parent_xwf_id)
         ELSE [s |-> r1.s, v |-> None], LAMBDA r2 :
    Bind(batch_or_commit(r2.s, Obj("workflow", linedata,
                                   [wf_uuid |-> linedata.xwf_id, root_wf_id |-> r1.v,
                                    parent_wf_id |-> r2.v])), LAMBDA s3 :
    IF s3.exc # "" \/ s3.batch THEN s3
    ELSE workflow_root(s3, linedata, is_root, r1.v))))

workflow(s, linedata) ==
    LET is_root == linedata.root_xwf_id = linedata.xwf_id IN
    Bind(IF ~is_root THEN wf_uuid_to_id(s, linedata.root_xwf_id)
         ELSE [s |-> s, v |-> None], LAMBDA r1 :
    Bind(IF linedata.parent_xwf_id # NoUuid
         THEN wf_uuid_to_id(r1.s, linedata.parent_xwf_id)
         ELSE [s |-> r1.s, v |-> None], LAMBDA r2 :
    Bind(commit_to_db(r2.s, Obj("workflow", linedata,
                                [wf_uuid |-> linedata.xwf_id, root_wf_id |-> r1.v,
                                 parent_wf_id |-> r2.v])), LAMBDA s3 :
    IF s3.exc # "" THEN s3
    ELSE workflow_root(s3, linedata, is_root, r1.v))))

state == [x \in {"stampede.xwf.start", "stampede.xwf.end"} |->
             IF x = "stampede.xwf.start" THEN "WORKFLOW_STARTED" ELSE "WORKFLOW_TERMINATED"]

workflowstate(s, linedata) ==
    Bind(wf_uuid_to_id(s, linedata.xwf_id), LAMBDA r :
    LET wfs == Obj("workflowstate", linedata,
                   [wf_id |-> r.v, state |-> state[linedata.event],
                    timestamp |-> linedata.ts])
    IN  IF r.s.batch THEN [r.s EXCEPT !.batch_cache.batch_events = Append(@, wfs)]
        ELSE Bind(commit_to_db(r.s, wfs), LAMBDA s2 :
             IF s2.exc # "" THEN s2
             ELSE IF wfs.event = "stampede.xwf.end" THEN flushCaches(s2, wfs)
             ELSE s2))

job(s, linedata) ==
    Bind(wf_uuid_to_id(s, linedata.xwf_id), LAMBDA r :
    batch_or_commit(r.s, Obj("job", linedata,
                             [wf_id |-> r.v, exec_job_id |-> linedata.job_id])))

job_edge(s, linedata) ==
    Bind(wf_uuid_to_id(s, linedata.xwf_id), LAMBDA r :
    batch_or_commit(r.s, Obj("job_edge", linedata,
                             [wf_id |-> r.v, parent_exec_job_id |-> linedata.other_id,
                              child_exec_job_id |-> linedata.job_id])))


\* array maps to status [-1, 0]
states ==
    ("stampede.job_inst.pre.start" :> <<"PRE_SCRIPT_STARTED", "PRE_SCRIPT_STARTED">>) @@
    ("stampede.job_inst.pre.term" :> <<"PRE_SCRIPT_TERMINATED", "PRE_SCRIPT_TERMINATED">>) @@
    ("stampede.job_inst.pre.end" :> <<"PRE_SCRIPT_FAILED", "PRE_SCRIPT_SUCCESS">>) @@
    ("stampede.job_inst.submit.end" :> <<"SUBMIT_FAILED", "SUBMIT">>) @@
    ("stampede.job_inst.main.start" :> <<"EXECUTE", "EXECUTE">>) @@
    ("stampede.job_inst.main.term" :> <<"JOB_EVICTED", "JOB_TERMINATED">>) @@
    ("stampede.job_inst.main.end" :> <<"JOB_FAILURE", "JOB_SUCCESS">>) @@
    ("stampede.job_inst.post.start" :> <<"POST_SCRIPT_STARTED", "POST_SCRIPT_STARTED">>) @@
    ("stampede.job_inst.post.term" :> <<"POST_SCRIPT_TERMINATED", "POST_SCRIPT_TERMINATED">>) @@
    ("stampede.job_inst.post.end" :> <<"POST_SCRIPT_FAILED", "POST_SCRIPT_SUCCESS">>) @@
    ("stampede.job_inst.held.start" :> <<"JOB_HELD", "JOB_HELD">>) @@
    ("stampede.job_inst.held.end" :> <<"JOB_RELEASED", "JOB_RELEASED">>) @@
    ("stampede.job_inst.image.info" :> <<"IMAGE_SIZE", "IMAGE_SIZE">>) @@
    ("stampede.job_inst.abort.info" :> <<"JOB_ABORTED", "JOB_ABORTED">>) @@
    ("stampede.job_inst.grid.submit.end" :> <<"GRID_SUBMIT_FAILED", "GRID_SUBMIT">>) @@
    ("stampede.job_inst.globus.submit.end" :> <<"GLOBUS_SUBMIT_FAILED", "GLOBUS_SUBMIT">>)

\* a job-instance tag that neither eventMap nor states lists (the corner case)
CornerTags == {"stampede.job_inst.remote.info"}

\* js.event.split('.')[2].upper()
ThirdSegmentUpper(event) == IF event = "stampede.job_inst.remote.info" THEN "REMOTE" ELSE "?"

\* Python's list[i]: valid for -len <= i < len, negative i counting from the end
PyIndexOk(list, i) == 0 - Len(list) <= i /\ i < Len(list)
PyIndex(list, i) == IF i >= 0 THEN list[i + 1] ELSE list[Len(list) + i + 1]

\* lines 559-565 of jobstate(): the state label of a record; "IndexError"
\* when states[js.event][int(js.status)+1] is out of range
\* js_state that ignores the status: always the first label
js_state_first_label(linedata) ==
    IF linedata.event \notin DOMAIN states THEN ThirdSegmentUpper(linedata.event)
    ELSE states[linedata.event][1]

\* js_state that does not doctor status-less events: a record without a
\* status fails
js_state_undoctored(linedata) ==
    IF linedata.event \notin DOMAIN states THEN ThirdSegmentUpper(linedata.event)
    ELSE IF linedata.status # NoStatus /\ PyIndexOk(states[linedata.event], One(linedata.status) + 1)
    THEN PyIndex(states[linedata.event], One(linedata.status) + 1)
    ELSE "IndexError"

js_state(linedata) ==
    LET \* doctor status-less events to simplify code
        status == IF linedata.status = NoStatus THEN 0 ELSE One(linedata.status)
    IN  IF linedata.event \notin DOMAIN states THEN ThirdSegmentUpper(linedata.event)
        ELSE IF PyIndexOk(states[linedata.event], status + 1)
        THEN PyIndex(states[linedata.event], status + 1)
        ELSE "IndexError"

jobstate(s, linedata) ==
    IF js_state(linedata) = "IndexError" THEN [s EXCEPT !.exc = "IndexError"]
    ELSE Bind(get_job_instance_id(s, Obj("jobstate", linedata, NoRow), FALSE), LAMBDA r :
         IF r.v = None
         THEN Log(r.s, "error", "No job_instance_id for event")
         ELSE batch_or_commit(r.s, Obj("jobstate", linedata,
                                       [job_instance_id |-> r.v,
                                        state |-> js_state(linedata),
                                        timestamp |-> linedata.ts])))

\* job_instance_insert that hands the new row to the write path of the
\* other handlers: in batched mode it waits in the insert buffer
job_instance_insert_batched(s3, linedata, job_id, iid) ==
    Bind(IF iid = None
         THEN batch_or_commit(s3, Obj("job_instance", linedata,
                                      [job_id |-> job_id,
                                       job_submit_seq |-> linedata.job_inst_id,
                                       host_id |-> None, subwf_id |-> None,
                    sched_id |-> linedata.sched_id,
                                       exitcode |-> NoStatus]))
         ELSE s3, LAMBDA s4 :
    IF s4.exc # "" THEN s4
    ELSE Bind(IF iid = None
              THEN get_job_instance_id(s4, Obj("job_instance", linedata, NoRow), FALSE).s
              ELSE s4, LAMBDA s5 :
         IF linedata.event = "stampede.job_inst.pre.start"
         THEN jobstate(s5, linedata) ELSE s5))

\* lines 507-515 of job_instance(): submit.start and pre.start, after the
\* lookup of line 505 has returned iid
job_instance_insert(s3, linedata, job_id, iid) ==
    Bind(IF iid = None
         THEN \* explicit insert
              commit_to_db(s3, Obj("job_instance", linedata,
                                   [job_id |-> job_id,
                                    job_submit_seq |-> linedata.job_inst_id,
                                    host_id |-> None, subwf_id |-> None,
                    sched_id |-> linedata.sched_id,
                                    exitcode |-> NoStatus]))
         ELSE s3, LAMBDA s4 :
    IF s4.exc # "" THEN s4
    ELSE Bind(IF iid = None
              THEN \* seed the cache
                   get_job_instance_id(s4, Obj("job_instance", linedata, NoRow), FALSE).s
              ELSE s4, LAMBDA s5 :
         IF linedata.event = "stampede.job_inst.pre.start"
         THEN jobstate(s5, linedata) ELSE s5))

\* lines 502-515 of job_instance(): submit.start and pre.start
job_instance_start(s, linedata, job_id) ==
    Bind(get_job_instance_id(s, Obj("job_instance", linedata, NoRow), TRUE), LAMBDA r3 :
    job_instance_insert(r3.s, linedata, job_id, r3.v))

\* lines 517-526 of job_instance(): main.end and post.end
\* job_instance_end without the jobstate() call of line 526
job_instance_end_without_state(s, linedata, job_id) ==
    Bind(get_job_instance_id(s, Obj("job_instance", linedata, NoRow), FALSE), LAMBDA r6 :
    LET upd == Obj("job_instance", linedata,
                   [job_instance_id |-> r6.v, job_id |-> job_id,
                    job_submit_seq |-> linedata.job_inst_id,
                    host_id |-> None, subwf_id |-> None,
                    sched_id |-> linedata.sched_id,
                    exitcode |-> linedata.exitcode])
    IN  IF r6.s.batch
        THEN [r6.s EXCEPT !.batch_cache.update_events = Append(@, upd)]
        ELSE Bind(session_merge(r6.s, upd), LAMBDA m :
                  IF m.exc # "" THEN m ELSE commit(m)))

job_instance_end(s, linedata, job_id) ==
    Bind(get_job_instance_id(s, Obj("job_instance", linedata, NoRow), FALSE), LAMBDA r6 :
    LET upd == Obj("job_instance", linedata,
                   [job_instance_id |-> r6.v, job_id |-> job_id,
                    job_submit_seq |-> linedata.job_inst_id,
                    host_id |-> None, subwf_id |-> None,
                    sched_id |-> linedata.sched_id,
                    exitcode |-> linedata.exitcode])
    IN  Bind(IF r6.s.batch
             THEN [r6.s EXCEPT !.batch_cache.update_events = Append(@, upd)]
             ELSE \* merge_to_db: session.merge(); session.commit()
                  Bind(session_merge(r6.s, upd), LAMBDA m :
                       IF m.exc # "" THEN m ELSE commit(m)),
             LAMBDA s7 : IF s7.exc # "" THEN s7 ELSE jobstate(s7, linedata)))

job_instance(s, linedata) ==
    Bind(wf_uuid_to_id(s, linedata.xwf_id), LAMBDA r1 :
    IF r1.v = None
    THEN Log(r1.s, "error", "No wf_id associated with wf_uuid - can not insert job instance")
    ELSE Bind(get_job_id(r1.s, r1.v, linedata.job_id), LAMBDA r2 :
         IF r2.v = None
         THEN Log(r2.s, "error", "Could not determine job_id for job_instance")
         ELSE IF linedata.event \in {"stampede.job_inst.submit.start",
                                     "stampede.job_inst.pre.start"}
         THEN job_instance_start(r2.s, linedata, r2.v)
         ELSE IF linedata.event \in {"stampede.job_inst.main.end",
                                     "stampede.job_inst.post.end"}
         THEN job_instance_end(r2.s, linedata, r2.v)
         ELSE r2.s))

invocation(s, linedata) ==
    Bind(wf_uuid_to_id(s, linedata.xwf_id), LAMBDA r1 :
    Bind(get_job_instance_id(r1.s, Obj("invocation", linedata, NoRow), FALSE), LAMBDA r2 :
    IF r2.v = None
    THEN Log(r2.s, "error", "Could not determine job_instance_id for invocation")
    ELSE batch_or_commit(r2.s, Obj("invocation", linedata,
                                   [job_instance_id |-> r2.v, wf_id |-> r1.v,
                                    task_submit_seq |-> linedata.inv_id]))))

task(s, linedata) ==
    Bind(wf_uuid_to_id(s, linedata.xwf_id), LAMBDA r :
    batch_or_commit(r.s, Obj("task", linedata,
                             [wf_id |-> r.v, abs_task_id |-> linedata.task_id,
                              job_id |-> None])))

task_edge(s, linedata) ==
    Bind(IF linedata.xwf_id \notin s.task_edge_flush
         THEN [run_hard_flush(s) EXCEPT !.task_edge_flush = @ \cup {linedata.xwf_id}]
         ELSE s, LAMBDA s1 :
    IF s1.exc # "" THEN [s1 EXCEPT !.task_edge_flush = s.task_edge_flush]
    ELSE Bind(wf_uuid_to_id(s1, linedata.xwf_id), LAMBDA r :
         batch_or_commit(r.s, Obj("task_edge", linedata,
                                  [wf_id |-> r.v,
                                   parent_abs_task_id |-> linedata.other_id,
                                   child_abs_task_id |-> linedata.task_id]))))

\* lines 654-675 of task_map(), after the flush of the first mapping event
task_map_update(s, linedata) ==
    Bind(wf_uuid_to_id(s, linedata.xwf_id), LAMBDA r1 :
    Bind(get_job_id(r1.s, r1.v, linedata.job_id), LAMBDA r2 :
    LET tasks == {t \in r2.s.db.task :
                     t.wf_id = r1.v /\ t.abs_task_id = linedata.task_id}
    IN  IF r2.v = None
        THEN Log(r2.s, "error", "Could not determine job_id for task map")
        ELSE IF Cardinality(tasks) > 1
        THEN Log(r2.s, "error", "Multiple task results: cant map task")
        ELSE IF tasks = {}
        THEN Log(r2.s, "error", "No task found: cant map task")
        ELSE Bind(SetPending(r2.s, "task", One(tasks).task_id, [job_id |-> r2.v]),
                  LAMBDA s3 : IF s3.batch THEN s3 ELSE commit(s3))))

task_map(s, linedata) ==
    Bind(IF linedata.xwf_id \notin s.task_map_flush
         THEN [run_hard_flush(s) EXCEPT !.task_map_flush = @ \cup {linedata.xwf_id}]
         ELSE s, LAMBDA s1 :
    IF s1.exc # "" THEN [s1 EXCEPT !.task_map_flush = s.task_map_flush]
    ELSE task_map_update(s1, linedata))

subwf_map(s, linedata) ==
    Bind(wf_uuid_to_id(s, linedata.xwf_id), LAMBDA r1 :
    Bind(wf_uuid_to_id(r1.s, linedata.subwf_id), LAMBDA r2 :
    Bind(get_job_id(r2.s, r1.v, linedata.job_id), LAMBDA r3 :
    LET job_insts == {r \in r3.s.db.job_instance :
                         r.job_id = r3.v /\ r.job_submit_seq = linedata.job_inst_id}
    IN  IF Cardinality(job_insts) > 1
        THEN Log(r3.s, "error", "Multiple job instance results: cant map subwf")
        ELSE IF job_insts = {}
        THEN Log(r3.s, "error", "No job instance found: cant map subwf")
        ELSE Bind(SetPending(r3.s, "job_instance", One(job_insts).job_instance_id,
                             [subwf_id |-> r2.v]),
                  LAMBDA s4 : IF s4.batch THEN s4 ELSE commit(s4)))))

\* lines 717-721 of host(): the lazily initialised de-duplication set
load_hosts_written_cache(s) ==
    IF ~s.hosts_written_cache.loaded
    THEN [s EXCEPT !.hosts_written_cache =
              [loaded |-> TRUE, keys |-> {<<row.wf_id, row.shi>> : row \in s.db.host}]]
    ELSE s

\* host() without the look into hosts_written_cache: every event inserts
host_unchecked(s, linedata) ==
    Bind(wf_uuid_to_root_id(load_hosts_written_cache(s), linedata.xwf_id), LAMBDA r :
    LET h == Obj("host", linedata, [wf_id |-> r.v, shi |-> linedata.shi])
    IN  Bind(batch_or_commit(r.s, h), LAMBDA s3 :
        IF s3.exc # "" THEN s3
        ELSE IF s3.batch
        THEN [s3 EXCEPT !.batch_cache.host_map_events = Append(@, h)]
        ELSE map_host_to_job_instance(s3, h)))

host(s, linedata) ==
    Bind(wf_uuid_to_root_id(load_hosts_written_cache(s), linedata.xwf_id), LAMBDA r :
    LET h == Obj("host", linedata, [wf_id |-> r.v, shi |-> linedata.shi])
        key == <<r.v, linedata.shi>>
    IN  Bind(IF key \notin r.s.hosts_written_cache.keys
             THEN \* handle inserts into the host table
                  Bind(batch_or_commit(r.s, h), LAMBDA s2 :
                       IF s2.exc # "" THEN s2
                       ELSE [s2 EXCEPT !.hosts_written_cache.keys = @ \cup {key}])
             ELSE r.s, LAMBDA s3 :
        \* handle mappings
        IF s3.exc # "" THEN s3
        ELSE IF s3.batch
        THEN [s3 EXCEPT !.batch_cache.host_map_events = Append(@, h)]
        ELSE map_host_to_job_instance(s3, h)))

static_end(s, linedata) == IF s.batch THEN run_hard_flush(s) ELSE s

\* a monitoring record carries wf_uuid, dag_job_id and sched_id under these
\* names; the one record shape holds them in xwf_id, job_id and sched_id, and
\* the measurement in metric
\* step 1 of online_monitoring_update: the job instances the SELECT matches
MonitoredInstances(D, linedata) ==
    {ji \in D.job_instance :
        /\ ji.sched_id # NoSched
        /\ ji.sched_id = linedata.sched_id
        /\ \E j \in D.job : \E w \in D.workflow :
              /\ j.job_id = ji.job_id /\ w.wf_id = j.wf_id
              /\ w.wf_uuid = linedata.xwf_id /\ j.exec_job_id = linedata.job_id}

\* merge_to_db of a JobMetrics object that carries the surrogate id of the
\* row found: the row is replaced by the object's values
merge_job_metrics(s, row) ==
    commit([s EXCEPT !.db.job_metrics =
               {r \in @ : r.job_metrics_id # row.job_metrics_id} \cup {row}])

\* online_monitoring_update that inserts whatever the store holds
online_monitoring_insert(s, linedata) ==
    LET found == MonitoredInstances(s.db, linedata) IN
    IF found = {} THEN s
    ELSE LET job_instance_id ==
                 MinOf({ji.job_instance_id : ji \in found})
             job_metrics == [dag_job_id |-> linedata.job_id,
                             job_instance_id |-> job_instance_id,
                             metric |-> linedata.metric]
         IN  commit_to_db(s, Obj("job_metrics", linedata, job_metrics))

\* .first() returns the first row the store yields: here the instance with
\* the lowest id
online_monitoring_update(s, linedata) ==
    LET found == MonitoredInstances(s.db, linedata) IN
    IF found = {} THEN s
    ELSE LET job_instance_id ==
                 MinOf({ji.job_instance_id : ji \in found})
             result == {r \in s.db.job_metrics :
                           /\ r.dag_job_id = linedata.job_id
                           /\ r.job_instance_id = job_instance_id}
             job_metrics == [dag_job_id |-> linedata.job_id,
                             job_instance_id |-> job_instance_id,
                             metric |-> linedata.metric]
         IN  IF result = {}
             THEN commit_to_db(s, Obj("job_metrics", linedata, job_metrics))
             ELSE \* we update existing measurement
                  merge_job_metrics(s,
                      [k \in DOMAIN job_metrics \cup {"job_metrics_id"} |->
                          IF k = "job_metrics_id"
                          THEN MinOf({r.job_metrics_id : r \in result})
                          ELSE job_metrics[k]])

\* noop() that flushes as static_end does
noop_flushing(s, linedata) == IF s.batch THEN run_hard_flush(s) ELSE s

noop(s, linedata) == s

(***************************************************************************)
(* process(): dispatch through eventMap, the except clauses, check_flush.  *)
(***************************************************************************)
\* "Case" dict to map events to handler methods
eventMap ==
    ("stampede.wf.plan" :> "workflow") @@
    ("stampede.wf.map.task_job" :> "task_map") @@
    ("stampede.static.start" :> "noop") @@
    ("stampede.static.end" :> "static_end") @@
    ("stampede.xwf.start" :> "workflowstate") @@
    ("stampede.xwf.end" :> "workflowstate") @@
    ("stampede.xwf.map.subwf_job" :> "subwf_map") @@
    ("stampede.task.info" :> "task") @@
    ("stampede.task.edge" :> "task_edge") @@
    ("stampede.job.info" :> "job") @@
    ("stampede.job.edge" :> "job_edge") @@
    ("stampede.job_inst.pre.start" :> "job_instance") @@
    ("stampede.job_inst.pre.term" :> "jobstate") @@
    ("stampede.job_inst.pre.end" :> "jobstate") @@
    ("stampede.job_inst.submit.start" :> "job_instance") @@
    ("stampede.job_inst.submit.end" :> "jobstate") @@
    ("stampede.job_inst.held.start" :> "jobstate") @@
    ("stampede.job_inst.held.end" :> "jobstate") @@
    ("stampede.job_inst.main.start" :> "jobstate") @@
    ("stampede.job_inst.main.term" :> "jobstate") @@
    ("stampede.job_inst.main.end" :> "job_instance") @@
    ("stampede.job_inst.post.start" :> "jobstate") @@
    ("stampede.job_inst.post.term" :> "jobstate") @@
    ("stampede.job_inst.post.end" :> "job_instance") @@
    ("stampede.job_inst.host.info" :> "host") @@
    ("stampede.job_inst.image.info" :> "jobstate") @@
    ("stampede.job_inst.abort.info" :> "jobstate") @@
    ("stampede.job_inst.grid.submit.start" :> "noop") @@
    ("stampede.job_inst.grid.submit.end" :> "jobstate") @@
    ("stampede.job_inst.globus.submit.start" :> "noop") @@
    ("stampede.job_inst.globus.submit.end" :> "jobstate") @@
    ("stampede.inv.start" :> "noop") @@
    ("stampede.inv.end" :> "invocation") @@
    ("stampede.job.monitoring" :> "online_monitoring_update")

\* self.eventMap[linedata['event']](linedata)
Call(handler, s, linedata) ==
    CASE handler = "workflow" -> workflow(s, linedata)
      [] handler = "task_map" -> task_map(s, linedata)
      [] handler = "static_end" -> static_end(s, linedata)
      [] handler = "workflowstate" -> workflowstate(s, linedata)
      [] handler = "subwf_map" -> subwf_map(s, linedata)
      [] handler = "task" -> task(s, linedata)
      [] handler = "task_edge" -> task_edge(s, linedata)
      [] handler = "job" -> job(s, linedata)
      [] handler = "job_edge" -> job_edge(s, linedata)
      [] handler = "job_instance" -> job_instance(s, linedata)
      [] handler = "jobstate" -> jobstate(s, linedata)
      [] handler = "host" -> host(s, linedata)
      [] handler = "invocation" -> invocation(s, linedata)
      [] handler = "online_monitoring_update" -> online_monitoring_update(s, linedata)
      [] OTHER -> noop(s, linedata)

\* the tags of the job-instance namespace: those of the state table, the
\* four others that eventMap lists, the corner case
JobInstNamespace ==
    DOMAIN states
    \cup {"stampede.job_inst.submit.start", "stampede.job_inst.host.info",
          "stampede.job_inst.grid.submit.start", "stampede.job_inst.globus.submit.start"}
    \cup CornerTags

\* startswith that takes every tag for one of the job-instance namespace
startswith_anything(event) == TRUE

\* linedata['event'].startswith('stampede.job_inst.')
startswith_job_inst(event) == event \in JobInstNamespace

\* an except clause that catches nothing: the exception leaves process()
except_nothing(s1) == s1

\* "except exc.IntegrityError" (lines 157-162) for what the handler raised
except_IntegrityError(s1) ==
    IF s1.exc = "IntegrityError"
    THEN rollback(Log([s1 EXCEPT !.exc = ""], "error", "Insert failed for event"))
    ELSE s1

\* the try block of process() with its except clauses (lines 143-167)
dispatch(s, linedata) ==
    IF linedata.event \in DOMAIN eventMap
    THEN Bind(Call(eventMap[linedata.event], s, linedata), LAMBDA s1 :
         except_IntegrityError(s1))
    \* except KeyError
    ELSE IF startswith_job_inst(linedata.event)
    THEN jobstate(Log(s, "warning", "Corner case jobstate event"), linedata)
    ELSE Log(s, "error", "No handler for event type defined")

\* the observations and the log describe one call: they start empty
Enter(s) == [s EXCEPT !.obs = NoObs, !.log = <<>>]

\* "except exc.OperationalError" (lines 163-167) up to the call of process():
\* the rollback and the connection check
except_OperationalError(s1) ==
    check_connection(
        rollback(Log([s1 EXCEPT !.exc = ""], "error",
                     "Connection seemingly lost - attempting to refresh")),
        "except")

\* process() without the connection check of lines 140-141
RECURSIVE process_unguarded(_, _)
process_unguarded(s0, linedata) ==
    Bind(dispatch(Step(s0, "dispatch"), linedata), LAMBDA s1 :
    IF s1.exc = "OperationalError" /\ linedata.event \in DOMAIN eventMap
    THEN Bind(except_OperationalError(s1), LAMBDA s2 :
         IF s2.exc # "" THEN s2
         ELSE Bind(process_unguarded(s2, linedata), LAMBDA s3 :
              IF s3.exc # "" THEN s3 ELSE check_flush(s3)))
    ELSE IF s1.exc # "" THEN s1
    ELSE check_flush(s1))

\* process() after its debug line; the handler of the KeyError clause runs
\* outside the try, so that what it raises leaves process()
RECURSIVE process_again(_, _)
process_again(s, linedata) ==
    Bind(IF s.batch THEN s ELSE check_connection(s, "process"), LAMBDA s0 :
    IF s0.exc # "" THEN s0
    ELSE
    Bind(dispatch(Step(s0, "dispatch"), linedata), LAMBDA s1 :
    IF s1.exc = "OperationalError" /\ linedata.event \in DOMAIN eventMap
    THEN Bind(except_OperationalError(s1), LAMBDA s2 :
         IF s2.exc # "" THEN s2
         ELSE Bind(process_again(s2, linedata), LAMBDA s3 :
              IF s3.exc # "" THEN s3 ELSE check_flush(s3)))
    ELSE IF s1.exc # "" THEN s1
    ELSE check_flush(s1)))

process(s, linedata) == process_again(Enter(s), linedata)

\* finish() without the final flush
finish_without_flush(s) == Enter(s)

finish(s) == run_hard_flush(Enter(s))

(***************************************************************************)
(* The state machine.  The first seventeen variables are the loader and    *)
(* its store; the next five record what the feeder did; the others are the *)
(* trigger service of the ensemble manager (trigger.py).                   *)
(***************************************************************************)
VARIABLES
    db,                     \* the store: committed rows per table
    pending,                \* uncommitted changes of loaded rows (the session)
    wf_id_cache, root_wf_id_cache, job_id_cache, job_instance_id_cache,
    host_cache, hosts_written_cache,
    batch,                  \* self._batch
    flush_count,            \* self._flush_count
    since_last_flush,       \* time.time() - self._last_flush, in ticks
    batch_cache,            \* self._batch_cache
    task_map_flush, task_edge_flush,
    log,                    \* messages of level warning and above, last call
    exc,                    \* the exception that ended the loader ("" if none)
    obs,                    \* what the last call did (NoObs)
    last,                   \* the record of the last call
    remaining,              \* records the feeder may still deliver
    ever,                   \* what has happened since construction
    fed,                    \* the records delivered so far, where a run keeps them
    shadow,                 \* a second loader given the same calls, where a run has one
    mailbox,                \* TriggerManager.mailbox: messages not yet handled
    running,                \* _TriggerDispatcher.running: name -> trigger thread
    checkout,               \* _TriggerDispatcher.checkout: names advertised for removal
    running_triggers_file,  \* the set pickled in running.p
    threads,                \* the trigger threads started so far
    dispatcher,             \* where the dispatcher thread is, and what it last did
    clock,                  \* datetime.now().timestamp(), in ticks
    mtime,                  \* st_mtime of each file that matches the pattern
    submitted,              \* the pegasus-em submit commands run so far
    sent                    \* messages the clients have sent so far

vars == <<db, pending, wf_id_cache, root_wf_id_cache, job_id_cache, job_instance_id_cache,
          host_cache, hosts_written_cache, batch, flush_count, since_last_flush,
          batch_cache, task_map_flush, task_edge_flush, log, exc, obs, last, remaining,
          ever, fed, shadow, mailbox, running, checkout, running_triggers_file,
          threads, dispatcher, clock, mtime, submitted, sent>>

\* the trigger service
trigger_vars == <<mailbox, running, checkout, running_triggers_file, threads, dispatcher,
                  clock, mtime, submitted, sent>>

\* the loader, its store and its feeder
loader_vars == <<db, pending, wf_id_cache, root_wf_id_cache, job_id_cache,
                 job_instance_id_cache, host_cache, hosts_written_cache, batch,
                 flush_count, since_last_flush, batch_cache, task_map_flush,
                 task_edge_flush, log, exc, obs, last, remaining, ever, fed, shadow>>

Loader ==
    [db |-> db, pending |-> pending, wf_id_cache |-> wf_id_cache,
     root_wf_id_cache |-> root_wf_id_cache, job_id_cache |-> job_id_cache,
     job_instance_id_cache |-> job_instance_id_cache, host_cache |-> host_cache,
     hosts_written_cache |-> hosts_written_cache, batch |-> batch,
     flush_count |-> flush_count, since_last_flush |-> since_last_flush,
     batch_cache |-> batch_cache, task_map_flush |-> task_map_flush,
     task_edge_flush |-> task_edge_flush, log |-> log, exc |-> exc, obs |-> obs,
     net |-> AlwaysUp, expunged |-> {}]

Becomes(t) ==
    /\ db' = t.db
    /\ pending' = t.pending
    /\ wf_id_cache' = t.wf_id_cache
    /\ root_wf_id_cache' = t.root_wf_id_cache
    /\ job_id_cache' = t.job_id_cache
    /\ job_instance_id_cache' = t.job_instance_id_cache
    /\ host_cache' = t.host_cache
    /\ hosts_written_cache' = t.hosts_written_cache
    /\ batch' = t.batch
    /\ flush_count' = t.flush_count
    /\ since_last_flush' = t.since_last_flush
    /\ batch_cache' = t.batch_cache
    /\ task_map_flush' = t.task_map_flush
    /\ task_edge_flush' = t.task_edge_flush
    /\ log' = t.log
    /\ exc' = t.exc
    /\ obs' = t.obs
    /\ UNCHANGED trigger_vars

\* __init__ (lines 101-128) on a store that holds store0
FreshLoader(store0, batching) ==
    [db |-> store0, pending |-> EmptyMap, wf_id_cache |-> EmptyMap,
     root_wf_id_cache |-> EmptyMap, job_id_cache |-> EmptyMap,
     job_instance_id_cache |-> EmptyMap, host_cache |-> EmptyMap,
     hosts_written_cache |-> [loaded |-> FALSE, keys |-> {}], batch |-> batching,
     flush_count |-> 0, since_last_flush |-> 0, batch_cache |-> EmptyBatchCache,
     task_map_flush |-> {}, task_edge_flush |-> {}, log |-> <<>>, exc |-> "",
     obs |-> NoObs, net |-> AlwaysUp, expunged |-> {}]

\* the store an earlier loader run (immediate mode) leaves after the records q
RECURSIVE ProcessAll(_, _, _)
ProcessAll(s, q, i) ==
    IF i > Len(q) \/ s.exc # "" THEN s
    ELSE Bind(process(s, q[i]), LAMBDA s1 : ProcessAll(s1, q, i + 1))

StoreAfter(q) == ProcessAll(FreshLoader(EmptyDb, FALSE), q, 1).db

InitLD == LD("init", NoUuid)
FinishLD == LD("finish", NoUuid)
NoEver == [flush |-> FALSE, forcing |-> FALSE, late |-> FALSE, hosts |-> {}, mapped |-> 0]

\* the dispatcher thread before its first step
NoStep == [pc |-> "accounting", has_changed |-> FALSE, exc |-> "", logged |-> ""]

\* TriggerManager.__init__ and _TriggerDispatcher.__init__ (lines 69-78, 104-123) at
\* time now, in a directory whose matching files have the modification times files
InitTriggers(now, files) ==
    /\ mailbox = <<>>
    /\ running = EmptyMap
    /\ checkout = <<>>
    /\ running_triggers_file = {}
    /\ threads = <<>>
    /\ dispatcher = NoStep
    /\ clock = now
    /\ mtime = files
    /\ submitted = <<>>
    /\ sent = 0

\* the loader after construction, and a feeder with n records to deliver
InitLoaderOnly(store0, batching, n) ==
    /\ \E t \in {FreshLoader(store0, batching)} :
          /\ db = t.db
          /\ pending = t.pending
          /\ wf_id_cache = t.wf_id_cache
          /\ root_wf_id_cache = t.root_wf_id_cache
          /\ job_id_cache = t.job_id_cache
          /\ job_instance_id_cache = t.job_instance_id_cache
          /\ host_cache = t.host_cache
          /\ hosts_written_cache = t.hosts_written_cache
          /\ batch = t.batch
          /\ flush_count = t.flush_count
          /\ since_last_flush = t.since_last_flush
          /\ batch_cache = t.batch_cache
          /\ task_map_flush = t.task_map_flush
          /\ task_edge_flush = t.task_edge_flush
          /\ log = t.log
          /\ exc = t.exc
          /\ obs = t.obs
    /\ last = InitLD
    /\ remaining = n
    /\ ever = NoEver
    /\ fed = <<>>

InitLoader(store0, batching, n) ==
    /\ InitLoaderOnly(store0, batching, n)
    /\ InitTriggers(0, EmptyMap)

InitWith(store0, batching, n) ==
    /\ InitLoader(store0, batching, n)
    /\ shadow = FreshLoader(store0, batching)

\* events that make their handler flush whatever check_flush says
ForcingEvents == {"stampede.static.end", "stampede.task.edge", "stampede.wf.map.task_job"}

\* the loader is alive: no uncaught exception has left process(), and finish()
\* has not been called
Running == exc = "" /\ last.event # "finish"

processed == MaxRecords - remaining

\* one call of process(linedata)
Feed(linedata) ==
    /\ Running
    /\ remaining > 0
    /\ \E t \in {process(Loader, linedata)} :
          /\ Becomes(t)
          /\ ever' = [flush |-> ever.flush \/ t.obs.nflush > 0,
                      forcing |-> ever.forcing \/ linedata.event \in ForcingEvents,
                      late |-> ever.late,
                      hosts |-> ever.hosts \cup
                                (IF linedata.event = "stampede.job_inst.host.info"
                                 THEN {<<linedata.xwf_id, linedata.shi>>} ELSE {}),
                      mapped |-> ever.mapped + t.obs.mapped]
    /\ last' = linedata
    /\ remaining' = remaining - 1

\* one call of finish()
FinishCall ==
    /\ Running
    /\ \E t \in {finish(Loader)} :
          /\ Becomes(t)
          /\ ever' = [ever EXCEPT !.mapped = @ + t.obs.mapped]
    /\ last' = FinishLD
    /\ UNCHANGED <<remaining, fed>>

\* finish()
Finish == FinishCall /\ UNCHANGED shadow

\* time passes between two calls
Tick ==
    /\ Running
    /\ batch
    /\ since_last_flush <= FlushInterval
    /\ since_last_flush' = since_last_flush + 1
    /\ ever' = [ever EXCEPT !.late = @ \/ since_last_flush + 1 > FlushInterval]
    /\ UNCHANGED <<db, pending, wf_id_cache, root_wf_id_cache, job_id_cache,
                   job_instance_id_cache, host_cache, hosts_written_cache, batch,
                   flush_count, batch_cache, task_map_flush, task_edge_flush, log, exc,
                   obs, last, remaining, fed, shadow>>
    /\ UNCHANGED trigger_vars

(***************************************************************************)
(* Records of each event type, and one action per handler: the feeder      *)
(* delivers a record of the handler's event types to process().            *)
(***************************************************************************)
\* stampede.wf.plan of a root workflow, and of a sub-workflow of Root
RootPlan(U) == [LD("stampede.wf.plan", U) EXCEPT !.root_xwf_id = U]
SubPlan(U, Root) ==
    [LD("stampede.wf.plan", U) EXCEPT !.root_xwf_id = Root, !.parent_xwf_id = Root]

XwfStart(U) == LD("stampede.xwf.start", U)
XwfEnd(U) == LD("stampede.xwf.end", U)
JobInfo(U, J) == [LD("stampede.job.info", U) EXCEPT !.job_id = J]
JobEdge(U, P, C) == [LD("stampede.job.edge", U) EXCEPT !.other_id = P, !.job_id = C]
TaskInfo(U, T) == [LD("stampede.task.info", U) EXCEPT !.task_id = T]
TaskEdge(U, P, C) == [LD("stampede.task.edge", U) EXCEPT !.other_id = P, !.task_id = C]
TaskMap(U, T, J) == [LD("stampede.wf.map.task_job", U) EXCEPT !.task_id = T, !.job_id = J]
SubwfMap(U, Sub, J) ==
    [LD("stampede.xwf.map.subwf_job", U) EXCEPT !.subwf_id = Sub, !.job_id = J]
\* a job-instance event (any stampede.job_inst.* tag) with its status field
JobInst(E, U, J, S) ==
    [LD(E, U) EXCEPT !.job_id = J, !.status = S, !.exitcode = S]
HostInfo(U, J, H) == [LD("stampede.job_inst.host.info", U) EXCEPT !.job_id = J, !.shi = H]
InvEnd(U, J) == [LD("stampede.inv.end", U) EXCEPT !.job_id = J]
StaticEnd == LD("stampede.static.end", "W1")
StaticStart == LD("stampede.static.start", "W1")
UnknownEvent == LD("stampede.unknown", "W1")

HandlerOf(R) == IF R.event \in DOMAIN eventMap THEN eventMap[R.event] ELSE "none"

Workflow(R) == HandlerOf(R) = "workflow" /\ Feed(R) /\ UNCHANGED <<fed, shadow>>
WorkflowState(R) == HandlerOf(R) = "workflowstate" /\ Feed(R) /\ UNCHANGED <<fed, shadow>>
Job(R) == HandlerOf(R) = "job" /\ Feed(R) /\ UNCHANGED <<fed, shadow>>
JobEdgeEv(R) == HandlerOf(R) = "job_edge" /\ Feed(R) /\ UNCHANGED <<fed, shadow>>
Task(R) == HandlerOf(R) = "task" /\ Feed(R) /\ UNCHANGED <<fed, shadow>>
TaskEdgeEv(R) == HandlerOf(R) = "task_edge" /\ Feed(R) /\ UNCHANGED <<fed, shadow>>
TaskMapEv(R) == HandlerOf(R) = "task_map" /\ Feed(R) /\ UNCHANGED <<fed, shadow>>
SubwfMapEv(R) == HandlerOf(R) = "subwf_map" /\ Feed(R) /\ UNCHANGED <<fed, shadow>>
JobInstance(R) == HandlerOf(R) = "job_instance" /\ Feed(R) /\ UNCHANGED <<fed, shadow>>
JobState(R) == HandlerOf(R) = "jobstate" /\ Feed(R) /\ UNCHANGED <<fed, shadow>>
CornerCase(R) == R.event \in CornerTags /\ Feed(R) /\ UNCHANGED <<fed, shadow>>
Host(R) == HandlerOf(R) = "host" /\ Feed(R) /\ UNCHANGED <<fed, shadow>>
Invocation(R) == HandlerOf(R) = "invocation" /\ Feed(R) /\ UNCHANGED <<fed, shadow>>
StaticEndEv == Feed(StaticEnd) /\ UNCHANGED <<fed, shadow>>
Noop == Feed(StaticStart) /\ UNCHANGED <<fed, shadow>>
Unknown == Feed(UnknownEvent) /\ UNCHANGED <<fed, shadow>>

(***************************************************************************)
(* The static part of a trace: workflows, jobs, tasks and their edges, in  *)
(* either write mode, on an empty store.  W2 is a sub-workflow of W1.      *)
(***************************************************************************)
StaticPlans == {RootPlan("W1"), SubPlan("W2", "W1")}

InitStatic == \E b \in BOOLEAN : InitWith(EmptyDb, b, MaxRecords)

NextStatic ==
    \/ \E R \in StaticPlans : Workflow(R)
    \/ \E U \in Uuids : WorkflowState(XwfStart(U))
    \/ \E U \in Uuids : Job(JobInfo(U, "job1"))
    \/ JobEdgeEv(JobEdge("W1", "job1", "job1"))
    \/ Task(TaskInfo("W1", "task1"))
    \/ \E U \in Uuids : TaskEdgeEv(TaskEdge(U, "task1", "task1"))
    \/ \E U \in Uuids : TaskMapEv(TaskMap(U, "task1", "job1"))
    \/ StaticEndEv
    \/ Noop
    \/ Unknown
    \/ Tick
    \/ Finish

SpecStatic == InitStatic /\ [][NextStatic]_vars

(***************************************************************************)
(* Properties of the static part.                                          *)
(***************************************************************************)
\* the rows waiting in the insert buffer
Buffered == Range(batch_cache.batch_events)

\* C1 (resolve-before-write): no row with a null parent reference is in the
\* store or in the insert buffer, in either write mode: a record whose parent
\* lookup finds nothing is dropped, it is not written or enqueued; a stored
\* workflow always has its root reference
C1_ResolveBeforeWrite ==
    /\ \A o \in Buffered : NullParents(o.table, o.row) = {}
    /\ \A tb \in Tables : \A r \in db[tb] : NullParents(tb, r) = {}
    /\ \A r \in db.workflow : r.root_wf_id # None

\* the last call was a process() call that returned
Returned == last.event \notin {"init", "finish"} /\ exc = ""

\* C3 (flush triggers): in batched mode, at the end of a process() call,
\* hard_flush runs if and only if the insert buffer has reached the count
\* threshold or the time since the last flush exceeds the interval
C3_FlushTriggers ==
    (batch /\ Returned) =>
        (obs.check.ran <=> (obs.check.buffered >= FlushEvery \/ obs.check.late))

\* C4 as stated (no early flush): in batched mode, fewer process() calls than
\* the count threshold, all within the flush interval, cause no flush before
\* finish(), whatever the event types
C4_NoEarlyFlush ==
    (batch /\ processed < FlushEvery /\ ~ever.late) => ~ever.flush

\* C4 amended: the same, for sequences without a static.end, task.edge or
\* wf.map.task_job event (their handlers flush on their own)
C4_NoEarlyFlushUnforced ==
    (batch /\ processed < FlushEvery /\ ~ever.late /\ ~ever.forcing) => ~ever.flush

\* rows are waiting after FlushEvery - 1 calls within the interval, none of a
\* forcing event, and nothing has been flushed
C4_Witness ==
    /\ batch
    /\ Returned
    /\ processed = FlushEvery - 1
    /\ ~ever.late
    /\ ~ever.forcing
    /\ ~ever.flush
    /\ Len(batch_cache.batch_events) = FlushEvery - 1

\* the step is process() of a record with this event tag
IsProcessOf(event) == remaining' = remaining - 1 /\ last'.event = event

\* the number of entries in the three buffers
BufferSizes(bc) ==
    <<Len(bc.batch_events), Len(bc.update_events), Len(bc.host_map_events)>>

\* C14 (workflow writes are synchronous): in batched mode, when process()
\* returns for a wf.plan event of a workflow the store does not hold yet, the
\* workflow row is committed in the store, no buffer has grown and none
\* holds a workflow row, and the next lookup of the workflow id finds it
C14_WorkflowSynchronous ==
    [][(/\ batch
        /\ IsProcessOf("stampede.wf.plan")
        /\ ~\E w \in db.workflow : w.wf_uuid = last'.xwf_id)
       =>
       (/\ exc' = ""
        /\ Cardinality({w \in db'.workflow : w.wf_uuid = last'.xwf_id}) = 1
        /\ \A i \in 1 .. 3 : BufferSizes(batch_cache')[i] <= BufferSizes(batch_cache)[i]
        /\ \A i \in 1 .. Len(batch_cache'.batch_events) :
              batch_cache'.batch_events[i].table # "workflow"
        /\ wf_uuid_to_id(Loader', last'.xwf_id).v # None)]_vars

\* batched mode, no flush has run: process() has returned for the plan of the
\* sub-workflow W2, whose row is in the store with the id of its root W1, and
\* the buffers are empty
C14_Witness ==
    /\ batch
    /\ Returned
    /\ last = SubPlan("W2", "W1")
    /\ ~ever.flush
    /\ batch_cache = EmptyBatchCache
    /\ \E w \in db.workflow : \E r \in db.workflow :
          /\ w.wf_uuid = "W2" /\ r.wf_uuid = "W1" /\ w.root_wf_id = r.wf_id

(***************************************************************************)
(* Host events.  The store already holds the root workflow W1, its         *)
(* sub-workflow W2, a job of each and an instance of each job; in one      *)
(* start state an earlier run has also written a host.                     *)
(***************************************************************************)
SubmitStart(U) == JobInst("stampede.job_inst.submit.start", U, "job1", NoStatus)

TwoWorkflows ==
    <<RootPlan("W1"), SubPlan("W2", "W1"), JobInfo("W1", "job1"), JobInfo("W2", "job1"),
      SubmitStart("W1"), SubmitStart("W2")>>

HostSeeds ==
    {StoreAfter(TwoWorkflows),
     StoreAfter(TwoWorkflows \o <<HostInfo("W1", "job1", <<"siteA", "hostA", "10.0.0.1">>)>>)}

InitHost == \E store0 \in HostSeeds : \E b \in BOOLEAN : InitWith(store0, b, MaxRecords)

NextHost ==
    \/ \E U \in Uuids : \E H \in HostTuples : Host(HostInfo(U, "job1", H))
    \/ Noop
    \/ Tick
    \/ Finish

SpecHost == InitHost /\ [][NextHost]_vars

\* the root workflow id stored for the workflow U
RootIdOf(U) == One({r \in db.workflow : r.wf_uuid = U}).root_wf_id

HostRows(w, h) == {r \in db.host : r.wf_id = w /\ r.shi = h}

HostsBuffered(w, h) ==
    {i \in 1 .. Len(batch_cache.batch_events) :
        /\ batch_cache.batch_events[i].table = "host"
        /\ batch_cache.batch_events[i].row.wf_id = w
        /\ batch_cache.batch_events[i].row.shi = h}

\* C2 (host de-duplication): for every (root workflow, site, hostname, ip)
\* that host events have carried, exactly one host row exists, stored or
\* waiting in the insert buffer; in immediate mode, and in batched mode after
\* finish(), it is stored; no flush ever had a row refused
C2_HostDedup ==
    \A e \in ever.hosts :
        /\ Cardinality(HostRows(RootIdOf(e[1]), e[2]))
               + Cardinality(HostsBuffered(RootIdOf(e[1]), e[2])) = 1
        /\ (~batch \/ last.event = "finish") =>
               Cardinality(HostRows(RootIdOf(e[1]), e[2])) = 1
        /\ obs.rowfail = 0

\* batched mode, after finish(): W1 and its sub-workflow W2 both reported the
\* same host, and one row for it is stored
C2_Witness ==
    /\ batch
    /\ last.event = "finish"
    /\ {<<"W1", <<"siteB", "hostB", "10.0.0.2">>>>,
        <<"W2", <<"siteB", "hostB", "10.0.0.2">>>>} \subseteq ever.hosts
    /\ Cardinality(HostRows(RootIdOf("W1"), <<"siteB", "hostB", "10.0.0.2">>)) = 1

(***************************************************************************)
(* Workflow termination and the lookup caches.  The store holds W1, W2, a  *)
(* job of each and an instance of each job; the jobs were written in       *)
(* either order, so job ids and workflow ids pair up either way.           *)
(***************************************************************************)
TwoWorkflowsJobsSwapped ==
    <<RootPlan("W1"), SubPlan("W2", "W1"), JobInfo("W2", "job1"), JobInfo("W1", "job1"),
      SubmitStart("W1"), SubmitStart("W2")>>

CacheSeeds == {StoreAfter(TwoWorkflows), StoreAfter(TwoWorkflowsJobsSwapped)}

InitCache == \E store0 \in CacheSeeds : \E b \in BOOLEAN : InitWith(store0, b, MaxRecords)

NextCache ==
    \/ \E U \in Uuids : WorkflowState(XwfEnd(U))
    \/ \E U \in Uuids : JobState(JobInst("stampede.job_inst.main.start", U, "job1", NoStatus))
    \/ \E U \in Uuids : Host(HostInfo(U, "job1", <<"siteA", "hostA", "10.0.0.1">>))
    \/ \E U \in Uuids : TaskEdgeEv(TaskEdge(U, "task1", "task1"))
    \/ Noop
    \/ Tick
    \/ Finish

SpecCache == InitCache /\ [][NextCache]_vars

\* C5 as stated (cache scope invalidation): in both write modes, once
\* process() has returned for an xwf.end event for U, wf_id_cache and
\* root_wf_id_cache hold no entry for U, so that the next lookup for U
\* re-queries the store
C5_InvalidatedOnReturn ==
    (Returned /\ last.event = "stampede.xwf.end") =>
        /\ last.xwf_id \notin DOMAIN wf_id_cache
        /\ last.xwf_id \notin DOMAIN root_wf_id_cache

\* the workflows whose termination row the step writes to the store
TerminationWritten(U) ==
    \E w \in db.workflow : \E r \in db'.workflowstate \ db.workflowstate :
        w.wf_uuid = U /\ r.wf_id = w.wf_id /\ r.state = "WORKFLOW_TERMINATED"

\* C5 amended: the call that writes the termination row of U to the store (in
\* immediate mode process() of the xwf.end event, in batched mode the call
\* whose flush writes the buffered row) leaves wf_id_cache and
\* root_wf_id_cache without an entry for U, unless its own handler looked U
\* up again after a flush it forced
C5_InvalidatedWhenWritten ==
    [][\A U \in Uuids :
          (TerminationWritten(U) /\ exc' = "") =>
              \/ /\ U \notin DOMAIN wf_id_cache'
                 /\ U \notin DOMAIN root_wf_id_cache'
              \/ /\ last'.event \in {"stampede.task.edge", "stampede.wf.map.task_job"}
                 /\ last'.xwf_id = U]_vars

\* batched mode: a flush at the end of the last call wrote the termination
\* row of W1 and removed W1 from both caches, which had held it; W2 is
\* still cached
C5_Witness ==
    /\ batch
    /\ obs.check.ran
    /\ "W1" \in obs.purged
    /\ \E i \in 1 .. Len(obs.flushed) :
          /\ obs.flushed[i].event = "stampede.xwf.end"
          /\ obs.flushed[i].wf_uuid = "W1"
          /\ obs.flushed[i].row \in db.workflowstate
    /\ "W1" \notin DOMAIN wf_id_cache
    /\ "W2" \in DOMAIN wf_id_cache

\* the workflow (UUID) that owns the job with this job id
JobOwner(job_id) ==
    One({w \in db.workflow : \E j \in db.job : j.job_id = job_id /\ j.wf_id = w.wf_id}).wf_uuid

\* the workflow (UUID) with this workflow id
WfOwner(wf_id) == One({w \in db.workflow : w.wf_id = wf_id}).wf_uuid

\* every entry of cache c whose owner is not among the workflows purged by
\* the step is still there, unchanged, in c2
Kept(c, c2, owner(_), purged) ==
    \A k \in DOMAIN c : owner(k) \notin purged => (k \in DOMAIN c2 /\ c2[k] = c[k])

\* C6 (invalidation frame): a call that invalidates the caches for the
\* terminated workflows leaves every entry of every other workflow unchanged
\* in all five caches
C6_InvalidationFrame ==
    [][/\ Kept(wf_id_cache, wf_id_cache', LAMBDA k : k, obs'.purged)
       /\ Kept(root_wf_id_cache, root_wf_id_cache', LAMBDA k : k, obs'.purged)
       /\ Kept(job_id_cache, job_id_cache', LAMBDA k : WfOwner(k[1]), obs'.purged)
       /\ Kept(job_instance_id_cache, job_instance_id_cache',
               LAMBDA k : JobOwner(k[1]), obs'.purged)
       /\ Kept(host_cache, host_cache', LAMBDA k : JobOwner(k[1]), obs'.purged)]_vars

(***************************************************************************)
(* Batched inserts that collide.  The loader batches; the store holds W1,  *)
(* with or without its job job1.                                           *)
(***************************************************************************)
ConflictSeeds ==
    {StoreAfter(<<RootPlan("W1")>>), StoreAfter(<<RootPlan("W1"), JobInfo("W1", "job1")>>)}

InitConflict == \E store0 \in ConflictSeeds : InitWith(store0, TRUE, MaxRecords)

NextConflict ==
    \/ \E J \in {"job1", "job2"} : Job(JobInfo("W1", J))
    \/ Task(TaskInfo("W1", "task1"))
    \/ WorkflowState(XwfStart("W1"))
    \/ Noop
    \/ Tick
    \/ Finish

SpecConflict == InitConflict /\ [][NextConflict]_vars

\* two rows of a table have the same natural key
SameKey(table, r1, r2) == \A f \in UK[table] : r1[f] = r2[f]

\* the positions of the batch B whose row repeats the natural key of a row of
\* the store D or of an earlier row of B
Conflicting(B, D) ==
    {i \in 1 .. Len(B) :
        \/ \E r \in D[B[i].table] : SameKey(B[i].table, r, B[i].row)
        \/ \E j \in 1 .. i - 1 :
              B[j].table = B[i].table /\ SameKey(B[i].table, B[j].row, B[i].row)}

\* the step is a call of process() or finish()
IsCall == remaining' = remaining - 1 \/ (last'.event = "finish" /\ last.event # "finish")

\* the number of rows the step adds to the store
RECURSIVE Total(_, _)
Total(f, S) == IF S = {} THEN 0 ELSE f[One(S)] + Total(f, S \ {One(S)})
NewRows == Total([tb \in Tables |-> Cardinality(db'[tb] \ db[tb])], Tables)

\* C7 (batch conflict isolation): when a flush is given N buffered inserts of
\* which exactly one violates a uniqueness constraint (and none has a null
\* parent), it stores the N-1 others and nothing else, and logs exactly one
\* per-row insert failure
C7_ConflictIsolation ==
    [][(/\ IsCall
        /\ obs'.nflush = 1
        /\ \A i \in 1 .. Len(obs'.flushed) :
              NullParents(obs'.flushed[i].table, obs'.flushed[i].row) = {}
        /\ Cardinality(Conflicting(obs'.flushed, db)) = 1)
       =>
       (/\ obs'.rowfail = 1
        /\ \A i \in (1 .. Len(obs'.flushed)) \ Conflicting(obs'.flushed, db) :
              \E r \in db'[obs'.flushed[i].table] \ db[obs'.flushed[i].table] :
                  SameKey(obs'.flushed[i].table, r, obs'.flushed[i].row)
        /\ NewRows = Len(obs'.flushed) - 1)]_vars

\* a flush at the count threshold was given a full batch of which one row
\* was refused; the other rows are stored
C7_Witness ==
    /\ obs.check.ran
    /\ obs.nflush = 1
    /\ Len(obs.flushed) = FlushEvery
    /\ obs.rowfail = 1
    /\ Cardinality({i \in 1 .. Len(obs.flushed) :
                       \E r \in db[obs.flushed[i].table] :
                           SameKey(obs.flushed[i].table, r, obs.flushed[i].row)}) = FlushEvery
    /\ \E i \in 1 .. Len(obs.flushed) : obs.flushed[i].table = "task"

(***************************************************************************)
(* Job-state labels.  The store holds W1, its job job1 and the instance    *)
(* (job1, 0); the feeder delivers job-instance events of every tag with    *)
(* every status.                                                           *)
(***************************************************************************)
OneInstance == <<RootPlan("W1"), JobInfo("W1", "job1"), SubmitStart("W1")>>

InitJobState == \E b \in BOOLEAN : InitWith(StoreAfter(OneInstance), b, LabelRecords)

NextJobState ==
    \/ \E E \in DOMAIN states : \E S \in Statuses : JobState(JobInst(E, "W1", "job1", S))
    \/ \E E \in DOMAIN states : \E S \in Statuses : JobInstance(JobInst(E, "W1", "job1", S))
    \/ \E E \in CornerTags : \E S \in Statuses : CornerCase(JobInst(E, "W1", "job1", S))
    \/ \E J \in {"job1", "job2"} : Invocation(InvEnd("W1", J))
    \/ \E J \in {"job1", "job2"} : SubwfMapEv(SubwfMap("W1", "W1", J))
    \/ Tick
    \/ Finish

SpecJobState == InitJobState /\ [][NextJobState]_vars

\* the tags whose label depends on the status, and the status-less ones
StatusTags == {e \in DOMAIN states : states[e][1] # states[e][2]}
StatuslessTags == DOMAIN states \ StatusTags

\* the job-state rows stored or waiting in the insert buffer
HeldJobStates == db.jobstate \cup {o.row : o \in {b \in Buffered : b.table = "jobstate"}}

\* the last call was process() of a record
Delivered == last.event \notin {"init", "finish"}

\* process() of the last record returned and a job-state row with this label
\* is held
Labelled(label) == exc = "" /\ \E r \in HeldJobStates : r.state = label

\* C8 as stated (label selection): for every status-carrying tag, status 0
\* selects the first (failure) label and status 1 the second (success) label
C8_LabelsAsStated ==
    (Delivered /\ last.event \in StatusTags /\ last.status \in {{0}, {1}}) =>
        Labelled(states[last.event][IF last.status = {0} THEN 1 ELSE 2])

\* C8 amended: for every status-carrying tag, status -1 selects the first
\* (failure) label and status 0 the second (success) label
C8_Labels ==
    (Delivered /\ last.event \in StatusTags /\ last.status \in {{0 - 1}, {0}}) =>
        Labelled(states[last.event][IF last.status = {0 - 1} THEN 1 ELSE 2])

\* a main.end record with status -1 left a JOB_FAILURE row and no JOB_SUCCESS row
C8_Witness ==
    /\ last.event = "stampede.job_inst.main.end"
    /\ last.status = {0 - 1}
    /\ Labelled("JOB_FAILURE")
    /\ ~Labelled("JOB_SUCCESS")

MainEnd(S) == JobInst("stampede.job_inst.main.end", "W1", "job1", S)

ScenarioAlphabet ==
    {RootPlan("W1"), JobInfo("W1", "job1"), StaticEnd, SubmitStart("W1"),
     MainEnd({0}), MainEnd({1})}

Deliver(R) == Feed(R) /\ fed' = Append(fed, R) /\ UNCHANGED shadow

InitScenario == \E b \in BOOLEAN : InitWith(EmptyDb, b, ScenarioRecords)

NextScenario ==
    \/ \E R \in ScenarioAlphabet : Deliver(R)
    \/ Finish

SpecScenario == InitScenario /\ [][NextScenario]_vars

\* the scenario as stated, with the given status of the main-end event
Scenario(S) == <<RootPlan("W1"), JobInfo("W1", "job1"), SubmitStart("W1"), MainEnd(S)>>

\* the scenario with the static.end event that ends the static part of a trace
ScenarioWithStaticEnd(S) ==
    <<RootPlan("W1"), JobInfo("W1", "job1"), StaticEnd, SubmitStart("W1"), MainEnd(S)>>

\* the store holds the instance (job1, 0) with the id of W1's job job1, and a
\* JOB_SUCCESS job-state row of that instance
ScenarioOutcome ==
    \E w \in db.workflow : \E j \in db.job :
    \E ji \in db.job_instance : \E js \in db.jobstate :
        /\ w.wf_uuid = "W1"
        /\ j.wf_id = w.wf_id
        /\ j.exec_job_id = "job1"
        /\ ji.job_id = j.job_id
        /\ ji.job_submit_seq = 0
        /\ js.job_instance_id = ji.job_instance_id
        /\ js.state = "JOB_SUCCESS"

\* the run is over: finish() was called, or an exception left process()
Over == last.event = "finish" \/ exc # ""

\* C10 as stated (end-to-end scenario): in either write mode, after the root
\* workflow W1, the job job1, submit-start (job1, 0) and main-end with
\* status 1, followed by finish(), the store holds the instance with the
\* resolved job id and a success job-state row of it
C10_ScenarioAsStated == (fed = Scenario({1}) /\ Over) => ScenarioOutcome

\* C10 amended: with main-end status 0 the outcome holds in immediate mode
\* once the four records are processed, and in batched mode after finish()
\* when a static.end event follows the job event
C10_Scenario ==
    /\ (~batch /\ fed = Scenario({0})) => ScenarioOutcome
    /\ (batch /\ fed = ScenarioWithStaticEnd({0}) /\ last.event = "finish") => ScenarioOutcome

\* batched mode: the scenario with static.end and status 0 was delivered,
\* finish() was called and the outcome is in the store
C10_Witness ==
    /\ batch
    /\ fed = ScenarioWithStaticEnd({0})
    /\ last.event = "finish"
    /\ ScenarioOutcome

(***************************************************************************)
(* The end-to-end host scenario: the store holds W1, its sub-workflow W2,  *)
(* a job of each and an instance of each job, with or without a host       *)
(* written by an earlier run; host events in any order, for the two        *)
(* instances and for a job (job2) that has no instance.                    *)
(***************************************************************************)
HostAlphabet ==
    {HostInfo(U, J, H) : U \in Uuids, J \in {"job1", "job2"}, H \in HostTuples}

InitHostScenario ==
    \E store0 \in HostSeeds : \E b \in BOOLEAN : InitWith(store0, b, MaxRecords)

NextHostScenario ==
    \/ \E R \in HostAlphabet : Deliver(R)
    \/ Finish

SpecHostScenario == InitHostScenario /\ [][NextHostScenario]_vars

\* two host events with the same (site, hostname, ip) for existing job
\* instances under the root W1 were delivered, and their writes are due: at
\* once in immediate mode, after finish() in batched mode
TwoHostEvents ==
    /\ Len(fed) = 2
    /\ fed[1].shi = fed[2].shi
    /\ fed[1].job_id = "job1"
    /\ fed[2].job_id = "job1"
    /\ (~batch \/ last.event = "finish")

\* the job instances of the store that reference the host row of (root of
\* W1, h)
MappedInstances(h) ==
    {ji \in db.job_instance :
        \E r \in HostRows(RootIdOf("W1"), h) : ji.host_id = r.host_id}

\* the instance (job, 0) of the workflow U
InstanceOf(U, J) ==
    {ji \in db.job_instance :
        \E w \in db.workflow : \E j \in db.job :
            /\ w.wf_uuid = U /\ j.wf_id = w.wf_id /\ j.exec_job_id = J
            /\ ji.job_id = j.job_id /\ ji.job_submit_seq = 0}

\* C11 as stated (end-to-end host scenario): after any two host events with
\* the same (site, hostname, ip) under the same root, the store holds one
\* host row and two mapping updates have been applied, one per event
C11_HostScenarioAsStated ==
    TwoHostEvents =>
        /\ exc = ""
        /\ Cardinality(HostRows(RootIdOf("W1"), fed[1].shi)) = 1
        /\ ever.mapped = 2

\* C11 amended: one host row in every case; two mapping updates, one per
\* event, when the two events name two different job instances, which then
\* both reference the host row; one mapping update when both events name the
\* same job instance (host_cache skips the second)
C11_HostScenario ==
    TwoHostEvents =>
        /\ exc = ""
        /\ Cardinality(HostRows(RootIdOf("W1"), fed[1].shi)) = 1
        /\ ever.mapped = (IF fed[1].xwf_id # fed[2].xwf_id THEN 2 ELSE 1)
        /\ \A i \in {1, 2} : InstanceOf(fed[i].xwf_id, "job1") \subseteq MappedInstances(fed[1].shi)

\* batched mode, after finish(): W1's and W2's instance reported the same new
\* host; one row of it is stored, two updates were applied and both instances
\* reference the row
C11_Witness ==
    /\ batch
    /\ last.event = "finish"
    /\ fed = <<HostInfo("W1", "job1", <<"siteB", "hostB", "10.0.0.2">>),
               HostInfo("W2", "job1", <<"siteB", "hostB", "10.0.0.2">>)>>
    /\ Cardinality(HostRows(RootIdOf("W1"), <<"siteB", "hostB", "10.0.0.2">>)) = 1
    /\ ever.mapped = 2
    /\ Cardinality(MappedInstances(<<"siteB", "hostB", "10.0.0.2">>)) = 2

(***************************************************************************)
(* Records that fail.  The store holds W1, its job job1 and the instance   *)
(* (job1, 0); the feeder delivers records that cannot be dispatched,       *)
(* resolved, inserted or mapped, in either write mode.                     *)
(***************************************************************************)
MainTerm(S) == JobInst("stampede.job_inst.main.term", "W1", "job1", S)
RemoteInfo == JobInst("stampede.job_inst.remote.info", "W1", "job1", NoStatus)

InitFailures == \E b \in BOOLEAN : InitWith(StoreAfter(OneInstance), b, MaxRecords)

NextFailures ==
    \/ \E S \in {{0}, {1}} : JobState(MainTerm(S))
    \/ CornerCase(RemoteInfo)
    \/ \E J \in {"job1", "job2"} : Host(HostInfo("W1", J, <<"siteA", "hostA", "10.0.0.1">>))
    \/ Job(JobInfo("W1", "job1"))
    \/ \E J \in {"job1", "job2"} :
          JobInstance(JobInst("stampede.job_inst.main.end", "W1", J, {0}))
    \/ TaskMapEv(TaskMap("W1", "task1", "job1"))
    \/ Unknown
    \/ Finish

SpecFailures == InitFailures /\ [][NextFailures]_vars

\* C12 (stream continuity): whatever failure the handling of a record hits,
\* process() returns normally, without raising, so that the next record is
\* processed
C12_StreamContinuity == Delivered => exc = ""

(***************************************************************************)
(* Expunge (netlogger/analysis/workflow/util.py): removes a workflow from  *)
(* the store.  The cascade of session.delete(wf) is defined by the schema, *)
(* which is outside the inspected source; it follows the specification: the *)
(* workflow and everything transitively owned by it.                       *)
(***************************************************************************)
\* the ids of the workflows S and of the workflows below them
RECURSIVE Descendants(_, _)
Descendants(D, S) ==
    LET T == S \cup {w.wf_id : w \in {x \in D.workflow : x.parent_wf_id \in S}}
    IN  IF T = S THEN S ELSE Descendants(D, T)

\* session.delete(wf); session.flush(); session.commit()
delete_cascade(D, wf_id) ==
    LET wfs == Descendants(D, {wf_id})
        jobs == {j.job_id : j \in {x \in D.job : x.wf_id \in wfs}}
        insts == {i.job_instance_id : i \in {x \in D.job_instance : x.job_id \in jobs}}
    IN  [t \in Tables |->
            CASE t = "job_instance" -> {r \in D[t] : r.job_id \notin jobs}
              [] t = "jobstate" -> {r \in D[t] : r.job_instance_id \notin insts}
              [] t = "invocation" ->
                    {r \in D[t] : r.wf_id \notin wfs /\ r.job_instance_id \notin insts}
              [] t = "job_metrics" -> {r \in D[t] : r.job_instance_id \notin insts}
              [] OTHER -> {r \in D[t] : r.wf_id \notin wfs}]

\* expunge() that removes the whole tree of the root, as did the loop over
\* Workflow.root_wf_id that the source has commented out
expunge_root_tree(D, wf_uuid) ==
    LET query == {w \in D.workflow : w.wf_uuid = wf_uuid}
    IN  IF query = {}
        THEN [db |-> D,
              log |-> <<<<"warn", "No workflow found with wf_uuid - aborting expunge">>>>]
        ELSE [db |-> delete_cascade(delete_cascade(D, One(query).wf_id),
                                    One(query).root_wf_id),
              log |-> <<>>]

\* Expunge(connString, wf_uuid).expunge(): the store and the log it leaves
expunge(D, wf_uuid) ==
    LET query == {w \in D.workflow : w.wf_uuid = wf_uuid}
    IN  IF query = {}
        THEN [db |-> D,
              log |-> <<<<"warn", "No workflow found with wf_uuid - aborting expunge">>>>]
        ELSE [db |-> delete_cascade(D, One(query).wf_id), log |-> <<>>]

ExpungeLD(U) == LD("expunge", U)

\* a run of the expunge utility between two calls of the loader
Expunge(U) ==
    /\ Running
    /\ \E t \in {expunge(db, U)} : db' = t.db /\ log' = t.log
    /\ last' = ExpungeLD(U)
    /\ shadow' = [shadow EXCEPT !.db = expunge(shadow.db, U).db]
    /\ UNCHANGED <<pending, wf_id_cache, root_wf_id_cache, job_id_cache,
                   job_instance_id_cache, host_cache, hosts_written_cache, batch,
                   flush_count, since_last_flush, batch_cache, task_map_flush,
                   task_edge_flush, exc, obs, remaining, ever, fed>>
    /\ UNCHANGED trigger_vars

(***************************************************************************)
(* Replay.  Two loaders on stores with the same content are given the same *)
(* calls; the caches of the second always miss.  The store holds the       *)
(* workflow W2; W1 is loaded, terminated, then expunged and loaded again.  *)
(***************************************************************************)
\* records delivered in a replay run
ReplayRecords == 2 * MaxRecords + 1

\* the four lookup caches hold nothing: every lookup misses and queries
Uncached(s) ==
    [s EXCEPT !.wf_id_cache = EmptyMap, !.root_wf_id_cache = EmptyMap,
              !.job_id_cache = EmptyMap, !.job_instance_id_cache = EmptyMap]

\* process(R) by both loaders
Replay(R) ==
    /\ Feed(R)
    /\ shadow' = IF shadow.exc # "" THEN shadow ELSE Uncached(process(Uncached(shadow), R))
    /\ UNCHANGED fed

\* finish() by both loaders
FinishBoth ==
    /\ FinishCall
    /\ shadow' = IF shadow.exc # "" THEN shadow ELSE Uncached(finish(Uncached(shadow)))

\* the store holds the termination row of the workflow U
Terminated(U) ==
    \E w \in db.workflow : \E r \in db.workflowstate :
        w.wf_uuid = U /\ r.wf_id = w.wf_id /\ r.state = "WORKFLOW_TERMINATED"

\* the workflow U is expunged once the loaders have written its termination
ExpungeTerminated(U) == Terminated(U) /\ Expunge(U)

ReplayAlphabet == {RootPlan("W1"), JobInfo("W1", "job1"), SubmitStart("W1"), XwfEnd("W1")}

InitReplay ==
    \E b \in BOOLEAN : InitWith(StoreAfter(<<RootPlan("W2")>>), b, ReplayRecords)

NextReplay ==
    \/ \E R \in ReplayAlphabet : Replay(R)
    \/ ExpungeTerminated("W1")
    \/ FinishBoth

SpecReplay == InitReplay /\ [][NextReplay]_vars

\* C13 (caches are a pure optimization): after every sequence of calls,
\* removal and replay of a workflow included, the store of the loader with
\* caches holds exactly the rows of the store of the loader whose caches
\* always miss
C13_CachesPureOptimization == (exc = "" /\ shadow.exc = "") => db = shadow.db

\* the step is a call of finish()
IsFinish == last'.event = "finish" /\ last.event # "finish"

\* the store after the step holds a row with the natural key of the insert o
Committed(o) == \E r \in db'[o.table] : SameKey(o.table, r, o.row)

\* the store after the step holds the job instance of the update o with the
\* exit code of o
Merged(o) ==
    \E r \in db'.job_instance :
        /\ r.job_id = o.row.job_id
        /\ r.job_submit_seq = o.row.job_submit_seq
        /\ r.exitcode = o.row.exitcode

\* the store after the step holds the job instance of the host event o,
\* which references a host
HostMapped(o) ==
    \E r \in db'.job_instance : \E j \in db'.job :
        /\ j.exec_job_id = o.exec_job_id
        /\ r.job_id = j.job_id
        /\ r.job_submit_seq = o.job_submit_seq
        /\ r.host_id # None

\* the buffered inserts and updates that the step does not write
Lost ==
    {<<"insert", i>> : i \in {k \in 1 .. Len(batch_cache.batch_events) :
                                  ~Committed(batch_cache.batch_events[k])}}
    \cup {<<"update", i>> : i \in {k \in 1 .. Len(batch_cache.update_events) :
                                      ~Merged(batch_cache.update_events[k])}}

\* C15 (final flush): in batched mode, when finish() returns, the three
\* buffers are empty, no change waits in the session, every buffered host
\* mapping is applied, and every buffered insert or update is in the store
\* unless an insert failure was logged for it
C15_FinalFlush ==
    [][(batch /\ IsFinish /\ exc' = "") =>
          /\ batch_cache' = EmptyBatchCache
          /\ pending' = EmptyMap
          /\ \A i \in 1 .. Len(batch_cache.host_map_events) :
                HostMapped(batch_cache.host_map_events[i])
          /\ Cardinality(Lost) <= obs'.rowfail
          /\ Len(log') = obs'.rowfail + (IF obs'.rowfail > 0 THEN 1 ELSE 0)]_vars

\* finish() has returned in batched mode: its flush was given two inserts, of
\* which one was refused and logged, and a host mapping, which it applied;
\* the buffers are empty
C15_Witness ==
    /\ batch
    /\ last.event = "finish"
    /\ exc = ""
    /\ obs.nflush = 1
    /\ Len(obs.flushed) = 2
    /\ obs.rowfail = 1
    /\ obs.mapped = 1
    /\ db.host # {}
    /\ batch_cache = EmptyBatchCache

\* the step is process() of a record
IsProcess == remaining' = remaining - 1

\* the job-state rows of a store and an insert buffer
JobStatesOf(D, bc) ==
    D.jobstate \cup {o.row : o \in {b \in Range(bc.batch_events) : b.table = "jobstate"}}

CornerWarning == <<"warning", "Corner case jobstate event">>
NoHandlerError == <<"error", "No handler for event type defined">>

\* the handlers that write job states themselves
JobStateWriters == {"jobstate", "job_instance"}

\* the flush at the end of the call ran; what it writes and what it raises
\* belongs to the records buffered before
Flushed == obs'.check.ran

\* C16 (unknown-tag routing): process() of a record whose tag eventMap does
\* not list hands it to jobstate() exactly when the tag is of the
\* job-instance namespace: it logs the corner-case warning and a job state
\* labelled with the third segment of the tag is held, or jobstate() has
\* failed; for any other unlisted tag it logs the missing handler, enqueues
\* nothing, writes nothing and raises nothing; a listed tag goes to its
\* handler alone: neither message is logged and, unless the handler writes
\* job states itself, no job state is added
C16_UnknownTagRouting ==
    [][IsProcess =>
          /\ (last'.event \notin DOMAIN eventMap /\ last'.event \in JobInstNamespace) =>
                /\ CornerWarning \in Range(log')
                /\ NoHandlerError \notin Range(log')
                /\ \/ exc' # ""
                   \/ \E r \in JobStatesOf(db', batch_cache') :
                         r.state = ThirdSegmentUpper(last'.event)
          /\ (last'.event \notin DOMAIN eventMap /\ last'.event \notin JobInstNamespace) =>
                /\ Len(log') >= 1 /\ log'[1] = NoHandlerError
                /\ CornerWarning \notin Range(log')
                /\ \/ Flushed
                   \/ /\ exc' = "" /\ db' = db /\ batch_cache' = batch_cache
                      /\ log' = <<NoHandlerError>> /\ pending' = pending
                /\ JobStatesOf(db', batch_cache') \subseteq JobStatesOf(db, batch_cache)
          /\ (last'.event \in DOMAIN eventMap) =>
                /\ CornerWarning \notin Range(log')
                /\ NoHandlerError \notin Range(log')
                /\ (eventMap[last'.event] \notin JobStateWriters) =>
                      JobStatesOf(db', batch_cache') \subseteq JobStatesOf(db, batch_cache)]_vars

\* immediate mode: the corner-case record was handed to jobstate(), which
\* stored a job state labelled REMOTE
C16_Witness ==
    /\ ~batch
    /\ last = RemoteInfo
    /\ exc = ""
    /\ log = <<CornerWarning>>
    /\ \E r \in db.jobstate : r.state = "REMOTE"

(***************************************************************************)
(* Two loaders on one store.  The variables of the loader are the first    *)
(* loader; shadow holds the second one, with its position in               *)
(* job_instance(): between the lookup of line 505 and the insert of line   *)
(* 509 the first loader may run.  The store holds W1 and its job job1.     *)
(***************************************************************************)
PreStart(U) == JobInst("stampede.job_inst.pre.start", U, "job1", NoStatus)
MainStart(U) == JobInst("stampede.job_inst.main.start", U, "job1", NoStatus)

\* the events that create a job instance
StartEvents == {SubmitStart("W1"), PreStart("W1")}

\* the second loader, idle, after construction
SecondLoader(store0, batching) ==
    [s |-> FreshLoader(store0, batching), pc |-> "idle", iid |-> None, job_id |-> None,
     rec |-> InitLD, left |-> MaxRecords, lost |-> FALSE, started |-> FALSE]

\* the second loader on the store as it is now
Second == [shadow.s EXCEPT !.db = db]

\* what a step of the second loader leaves alone
SecondOnly ==
    /\ UNCHANGED <<pending, wf_id_cache, root_wf_id_cache, job_id_cache,
                   job_instance_id_cache, host_cache, hosts_written_cache, batch,
                   flush_count, since_last_flush, batch_cache, task_map_flush,
                   task_edge_flush, log, exc, obs, last, remaining, ever, fed>>
    /\ UNCHANGED trigger_vars

\* lines 492-505 of job_instance() by the second loader: the lookups
SecondLookup(R) ==
    /\ shadow.pc = "idle"
    /\ shadow.left > 0
    /\ shadow.s.exc = ""
    /\ \E r2 \in {Bind(wf_uuid_to_id(Enter(Second), R.xwf_id), LAMBDA r1 :
                      get_job_id(r1.s, r1.v, R.job_id))} :
       \E r3 \in {get_job_instance_id(r2.s, Obj("job_instance", R, NoRow), TRUE)} :
          /\ r2.v # None
          /\ shadow' = [shadow EXCEPT !.s = r3.s, !.pc = "looked_up", !.iid = r3.v,
                                      !.job_id = r2.v, !.rec = R, !.left = @ - 1,
                                      !.lost = FALSE]
    /\ UNCHANGED db
    /\ SecondOnly

\* the job instances (job1, 0) of the store
CrossInstances ==
    {ji \in db.job_instance :
        /\ ji.job_submit_seq = 0
        /\ \E j \in db.job : j.job_id = ji.job_id /\ j.exec_job_id = "job1"}

\* lines 507-515 of job_instance() by the second loader, and the rest of its
\* process() call
SecondInsert ==
    /\ shadow.pc = "looked_up"
    /\ \E t \in {Bind(except_IntegrityError(
                         job_instance_insert(Second, shadow.rec, shadow.job_id, shadow.iid)),
                      LAMBDA s1 : IF s1.exc # "" THEN s1 ELSE check_flush(s1))} :
          /\ db' = t.db
          /\ shadow' = [shadow EXCEPT !.s = t, !.pc = "idle", !.started = TRUE,
                                      !.lost = shadow.iid = None /\ CrossInstances # {}]
    /\ SecondOnly

\* process() of a later record by the second loader
SecondProcess(R) ==
    /\ shadow.pc = "idle"
    /\ shadow.left > 0
    /\ shadow.s.exc = ""
    /\ \E t \in {process(Second, R)} :
          /\ db' = t.db
          /\ shadow' = [shadow EXCEPT !.s = t, !.rec = R, !.left = @ - 1, !.lost = FALSE]
    /\ SecondOnly

InitCross ==
    \E a \in BOOLEAN : \E b \in BOOLEAN :
    \E store0 \in {StoreAfter(<<RootPlan("W1"), JobInfo("W1", "job1")>>)} :
        /\ InitLoader(store0, a, MaxRecords)
        /\ shadow = SecondLoader(store0, b)

NextCross ==
    \/ \E R \in StartEvents : JobInstance(R)
    \/ JobState(MainStart("W1"))
    \/ \E R \in StartEvents : SecondLookup(R)
    \/ SecondInsert
    \/ SecondProcess(MainStart("W1"))

SpecCross == InitCross /\ [][NextCross]_vars

\* the job-instance id to which a loader resolves an event for (job1, 0)
Resolved(L) == get_job_instance_id(L, Obj("jobstate", MainStart("W1"), NoRow), TRUE).v

\* C17 (cross-loader consistency): however the start events for (job1, 0)
\* of two loaders on one store interleave, no loader is left by an
\* exception, the store holds at most one job instance for the key, and
\* exactly one once a loader has processed a start event; the loader whose
\* insert was refused has logged it and rolled back; both loaders resolve
\* the key to the id of that one row
C17_CrossLoader ==
    /\ exc = ""
    /\ shadow.s.exc = ""
    /\ Cardinality(CrossInstances) <= 1
    /\ (shadow.started \/ last \in StartEvents) => Cardinality(CrossInstances) = 1
    /\ shadow.lost =>
          /\ <<"error", "Insert failed for event">> \in Range(shadow.s.log)
          /\ shadow.s.pending = EmptyMap
    /\ CrossInstances # {} =>
          /\ Resolved(Loader) = One(CrossInstances).job_instance_id
          /\ Resolved(Second) = One(CrossInstances).job_instance_id

\* the first loader inserted the instance between the lookup and the insert
\* of the second, whose insert was refused; one row exists and both loaders
\* resolve the key to it
C17_Witness ==
    /\ shadow.lost
    /\ shadow.s.exc = ""
    /\ last \in StartEvents
    /\ Cardinality(CrossInstances) = 1
    /\ Resolved(Loader) = One(CrossInstances).job_instance_id
    /\ Resolved(Second) = One(CrossInstances).job_instance_id

(***************************************************************************)
(* Expunge on a store with a workflow tree.  W1 is the root; W2 and W3 are *)
(* its sub-workflows, side by side or W3 below W2; each has a job and an   *)
(* instance.  A loader in immediate mode adds hosts and states; the        *)
(* utility is run for any of them, or for W4, which the store lacks.       *)
(***************************************************************************)
Family == {"W1", "W2", "W3"}

\* stampede.wf.plan of the sub-workflow U of Root whose parent is Parent
SubPlanBelow(U, Root, Parent) ==
    [LD("stampede.wf.plan", U) EXCEPT !.root_xwf_id = Root, !.parent_xwf_id = Parent]

JobsAndInstances ==
    <<JobInfo("W1", "job1"), JobInfo("W2", "job1"), JobInfo("W3", "job1"),
      SubmitStart("W1"), SubmitStart("W2"), SubmitStart("W3")>>

ExpungeSeeds ==
    {StoreAfter(<<RootPlan("W1"), SubPlan("W2", "W1"), SubPlan("W3", "W1")>>
                \o JobsAndInstances),
     StoreAfter(<<RootPlan("W1"), SubPlan("W2", "W1"), SubPlanBelow("W3", "W1", "W2")>>
                \o JobsAndInstances)}

InitExpunge == \E store0 \in ExpungeSeeds : InitWith(store0, FALSE, MaxRecords)

NextExpunge ==
    \/ \E U \in Family : Host(HostInfo(U, "job1", <<"siteA", "hostA", "10.0.0.1">>))
    \/ \E U \in Family : JobState(MainStart(U))
    \/ \E U \in Family : WorkflowState(XwfStart(U))
    \/ \E U \in Family \cup {"W4"} : Expunge(U)

SpecExpunge == InitExpunge /\ [][NextExpunge]_vars

\* the workflow row with this id is the workflow U or lies below it
RECURSIVE Under(_, _, _)
Under(D, wf_id, U) ==
    \E w \in D.workflow :
        /\ w.wf_id = wf_id
        /\ \/ w.wf_uuid = U
           \/ (w.parent_wf_id # None /\ w.parent_wf_id # wf_id /\ Under(D, w.parent_wf_id, U))

\* the ids of the workflow that owns a row of a table (none for a row whose
\* parent reference is null or dangling)
OwnersOf(D, table, r) ==
    CASE table = "job_instance" ->
            {j.wf_id : j \in {x \in D.job : x.job_id = r.job_id}}
      [] table \in {"jobstate", "job_metrics"} ->
            {j.wf_id : j \in {x \in D.job :
                    \E ji \in D.job_instance :
                        ji.job_instance_id = r.job_instance_id /\ ji.job_id = x.job_id}}
      [] OTHER -> {r.wf_id}

\* the step is a run of expunge() for U
IsExpunge(U) == last' = ExpungeLD(U) /\ remaining' = remaining

ExpungeWarning == <<"warn", "No workflow found with wf_uuid - aborting expunge">>

\* C18 (expunge scope): expunge() for U removes the workflow U, the
\* workflows below it and every row they own, and keeps every other row as
\* it is; without a workflow U in the store it logs a warning and leaves the
\* store unchanged
C18_ExpungeScope ==
    [][\A U \in Family \cup {"W4"} :
          IsExpunge(U) =>
             IF \E w \in db.workflow : w.wf_uuid = U
             THEN /\ \A t \in Tables :
                        db'[t] = {r \in db[t] :
                                     \A o \in OwnersOf(db, t, r) : ~Under(db, o, U)}
                  /\ ExpungeWarning \notin Range(log')
             ELSE /\ db' = db
                  /\ ExpungeWarning \in Range(log')]_vars

\* expunge() for W2 has removed W2 and its rows from a store in which W3 is
\* its sibling: W1 and W3 still have their job instances, job states and
\* the host of their root
C18_Witness ==
    /\ last = ExpungeLD("W2")
    /\ {w.wf_uuid : w \in db.workflow} = {"W1", "W3"}
    /\ Cardinality(db.job) = 2
    /\ Cardinality(db.job_instance) = 2
    /\ Cardinality(db.jobstate) = 2
    /\ Cardinality(db.host) = 1

(***************************************************************************)
(* What flushCaches leaves behind, on the specification of the caches      *)
(* (SpecCache).                                                            *)
(***************************************************************************)
\* flushCaches for U was the last thing the call did to the caches: the call
\* is process() of U's xwf.end in immediate mode, or finish() in batched mode
PurgeEndsCall(U) ==
    /\ U \in obs'.purged
    /\ exc' = ""
    /\ \/ ~batch /\ last' = XwfEnd(U) /\ remaining' = remaining - 1
       \/ batch /\ last' = FinishLD /\ last # FinishLD

\* the keys of a cache keyed by (job id, submission sequence) that belong to
\* a job of U
JobKeysOf(c, U) ==
    {k \in DOMAIN c : \E w \in db.workflow : \E j \in db.job :
        w.wf_uuid = U /\ j.wf_id = w.wf_id /\ j.job_id = k[1]}

\* the keys of job_id_cache that carry the workflow id of U
WfKeysOf(c, U) ==
    {k \in DOMAIN c : \E w \in db.workflow : w.wf_uuid = U /\ w.wf_id = k[1]}

\* C19 (complete scoped purge): right after flushCaches has run for the
\* terminated workflow U, no cache holds an entry scoped to U: none for U in
\* wf_id_cache and root_wf_id_cache, none with U's workflow id in
\* job_id_cache, none with the job id of a job of U in job_instance_id_cache
\* and host_cache
C19_CompleteScopedPurge ==
    [][\A U \in Uuids :
          PurgeEndsCall(U) =>
              /\ U \notin DOMAIN wf_id_cache'
              /\ U \notin DOMAIN root_wf_id_cache'
              /\ WfKeysOf(job_id_cache', U) = {}
              /\ JobKeysOf(job_instance_id_cache', U) = {}
              /\ JobKeysOf(host_cache', U) = {}]_vars

\* C20 (invalidate only after durable write): in both write modes a call
\* invalidates the caches for U only when it has committed U's
\* WORKFLOW_TERMINATED row to the store; when the commit of that row fails,
\* in the per-row fallback too, the caches for U are not purged
C20_InvalidateAfterDurableWrite ==
    [][\A U \in Uuids : (IsCall /\ U \in obs'.purged) => TerminationWritten(U)]_vars

(***************************************************************************)
(* Job instances.  The store holds W1, W2 and a job job1 of each, without  *)
(* instances; the loader receives the events that create an instance, the  *)
(* events that end one and the termination of the workflows.               *)
(***************************************************************************)
MainEndOf(U) == JobInst("stampede.job_inst.main.end", U, "job1", {0})
PostEndOf(U) == JobInst("stampede.job_inst.post.end", U, "job1", {0})

JobsOnly ==
    <<RootPlan("W1"), SubPlan("W2", "W1"), JobInfo("W1", "job1"), JobInfo("W2", "job1")>>
JobsOnlySwapped ==
    <<RootPlan("W1"), SubPlan("W2", "W1"), JobInfo("W2", "job1"), JobInfo("W1", "job1")>>

InstanceSeeds == {StoreAfter(JobsOnly), StoreAfter(JobsOnlySwapped)}

InstanceAlphabet ==
    {SubmitStart("W1"), PreStart("W1"), SubmitStart("W2"), MainEndOf("W1"), PostEndOf("W1"),
     XwfEnd("W1"), XwfEnd("W2")}

InitInstance ==
    \E store0 \in InstanceSeeds : \E b \in BOOLEAN : InitWith(store0, b, MaxRecords)

NextInstance ==
    \/ \E R \in InstanceAlphabet : Deliver(R)
    \/ Tick
    \/ Finish

SpecInstance == InitInstance /\ [][NextInstance]_vars

\* the job ids of job1 of the workflow U in the store D
JobIdsOf(D, U) ==
    {j.job_id : j \in {x \in D.job : x.exec_job_id = "job1" /\
                          \E w \in D.workflow : w.wf_uuid = U /\ w.wf_id = x.wf_id}}

\* the rows of JobInstance for (job1 of U, submission sequence 0)
InstancesOf(D, U) ==
    {r \in D.job_instance : r.job_id \in JobIdsOf(D, U) /\ r.job_submit_seq = 0}

\* the step is process() of a submit.start or pre.start event for job1 of U,
\* and no flush at its end has invalidated caches since the handler returned
IsInstanceStart(U) ==
    /\ remaining' = remaining - 1
    /\ last' \in {SubmitStart(U), PreStart(U)}
    /\ obs'.purged = {}

\* the objects of a table that wait in a buffer
BufferedIn(buffer, table) == {o \in Range(buffer) : o.table = table}

IsInstanceEnd(U) ==
    /\ remaining' = remaining - 1
    /\ last' \in {MainEndOf(U), PostEndOf(U)}

\* the update objects queued with a null job-instance id
UnresolvedUpdates(bc) ==
    {o \in Range(bc.update_events) : o.row.job_instance_id = None}

\* C22 (main-end/post-end requires an existing instance): process() of a
\* main.end or post.end event for a (job, submission sequence) without a
\* JobInstance row creates no JobInstance row and queues no update whose
\* job-instance id is null
C22_EndRequiresInstance ==
    [][\A U \in Uuids :
          (IsInstanceEnd(U) /\ InstancesOf(db, U) = {}) =>
              /\ InstancesOf(db', U) = {}
              /\ UnresolvedUpdates(batch_cache') = {}]_vars

(***************************************************************************)
(* Mapping events in batched mode.  The store holds W1 with its job job1,  *)
(* its task task1 and an instance of job1, and the sub-workflow W2; the    *)
(* loader receives the two mapping events, rows that wait in the insert    *)
(* buffer, rows the store refuses, and the termination of W1.              *)
(***************************************************************************)
\* records delivered where a second mapping event follows an invalidation
MappingRecords == MaxRecords + 1

MappingSeed ==
    StoreAfter(<<RootPlan("W1"), SubPlan("W2", "W1"), JobInfo("W1", "job1"),
                 TaskInfo("W1", "task1"), SubmitStart("W1")>>)

TaskMapRec == TaskMap("W1", "task1", "job1")
SubwfMapRec == SubwfMap("W1", "W2", "job1")

MappingAlphabet ==
    {TaskMapRec, SubwfMapRec, TaskInfo("W1", "task2"), JobInfo("W1", "job1"),
     RootPlan("W1"), XwfEnd("W1")}

InitMapping == InitWith(MappingSeed, TRUE, MappingRecords)

NextMapping ==
    \/ \E R \in MappingAlphabet : Deliver(R)
    \/ Tick
    \/ Finish

SpecMapping == InitMapping /\ [][NextMapping]_vars

\* the positions in the records delivered so far of the mapping events of the
\* kind and workflow of R
EarlierMappings(R) ==
    {i \in 1 .. Len(fed) : fed[i].event = R.event /\ fed[i].xwf_id = R.xwf_id}

\* the termination of R's workflow was delivered, once, after its last
\* mapping event of R's kind, and has been written to the store by a flush:
\* its caches were invalidated
InvalidatedSince(R) ==
    /\ \E i \in 1 .. Len(fed) :
          /\ fed[i] = XwfEnd(R.xwf_id)
          /\ \A k \in EarlierMappings(R) : k < i
          /\ \A k \in 1 .. Len(fed) : fed[k] = fed[i] => k = i
    /\ \E w \in db.workflow : \E r \in db.workflowstate :
          w.wf_uuid = R.xwf_id /\ r.wf_id = w.wf_id /\ r.state = "WORKFLOW_TERMINATED"

\* the step is process() of the mapping event R, the first of its kind for its
\* workflow or the first since the workflow's caches were invalidated, and
\* rows wait in a buffer
IsFirstMapping(R) ==
    /\ remaining' = remaining - 1
    /\ last' = R
    /\ EarlierMappings(R) = {} \/ InvalidatedSince(R)
    /\ batch_cache # EmptyBatchCache

\* the handler of the call ran hard_flush itself (check_flush, at the end of
\* process(), runs after the handler's lookup)
HandlerFlushed(o) == o.nflush - (IF o.check.ran THEN 1 ELSE 0) >= 1

\* C23 (flush before first mapping): in batched mode the handler of the first
\* TaskMap event and of the first SubworkflowMap event of a workflow, and of
\* the next one after the workflow's termination was invalidated, flushes the
\* buffers before its lookup
C23_FlushBeforeFirstMapping ==
    [][\A R \in {TaskMapRec, SubwfMapRec} :
          (batch /\ IsFirstMapping(R)) => HandlerFlushed(obs')]_vars

\* the task task1 of W1 is mapped to the job job1 of W1 in the store D
TaskMapped(D) ==
    \E t \in D.task : \E j \in D.job : \E w \in D.workflow :
        /\ w.wf_uuid = "W1" /\ t.wf_id = w.wf_id /\ j.wf_id = w.wf_id
        /\ t.abs_task_id = "task1" /\ j.exec_job_id = "job1"
        /\ t.job_id = j.job_id

\* the instance of job1 of W1 is mapped to the sub-workflow W2 in the store D
SubwfMapped(D) ==
    \E r \in InstancesOf(D, "W1") : \E w \in D.workflow :
        w.wf_uuid = "W2" /\ r.subwf_id = w.wf_id

\* C24 (mapping updates survive conflict fallback): in batched mode, once
\* task_map (subwf_map) has accepted a mapping update in an earlier call, the
\* update is in the store when a flush completes, also when the bulk commit
\* of that flush was refused and replayed per row, and when an IntegrityError
\* of a later record made process() roll the session back
C24_MappingSurvivesFallback ==
    [][(batch /\ IsCall /\ obs'.nflush > 0 /\ exc' = "") =>
          /\ TaskMapRec \in Range(fed) => TaskMapped(db')
          /\ SubwfMapRec \in Range(fed) => SubwfMapped(db')]_vars

(***************************************************************************)
(* Online monitoring.  The store holds W1 and its job job1, with or        *)
(* without an instance; the loader receives submit.start events that carry *)
(* a scheduler id and monitoring events for known and unknown instances.   *)
(***************************************************************************)
SchedIds == {"s1", "s2"}

\* stampede.job_inst.submit.start of job1 of W1 with its scheduler id
SubmitStartAt(seq, sched) ==
    [SubmitStart("W1") EXCEPT !.job_inst_id = seq, !.sched_id = sched]

\* stampede.job.monitoring for (wf_uuid, dag_job_id, sched_id) with a measurement
Monitoring(U, J, sched, m) ==
    [LD("stampede.job.monitoring", U) EXCEPT !.job_id = J, !.sched_id = sched, !.metric = m]

MetricsSeeds ==
    {StoreAfter(<<RootPlan("W1"), JobInfo("W1", "job1")>>),
     StoreAfter(<<RootPlan("W1"), JobInfo("W1", "job1"), SubmitStartAt(0, "s1")>>)}

MetricsAlphabet ==
    {SubmitStartAt(0, "s1"), SubmitStartAt(1, "s2")}
    \cup {Monitoring("W1", J, sched, m) :
            J \in {"job1", "job2"}, sched \in SchedIds \cup {"s3"}, m \in {1, 2}}

InitMetrics ==
    \E store0 \in MetricsSeeds : \E b \in BOOLEAN : InitWith(store0, b, MaxRecords)

NextMetrics ==
    \/ \E R \in MetricsAlphabet : Deliver(R)
    \/ Finish

SpecMetrics == InitMetrics /\ [][NextMetrics]_vars

\* the rows of JobMetrics for a job instance and an external job id
MetricsOf(D, job_instance_id, dag_job_id) ==
    {r \in D.job_metrics :
        r.job_instance_id = job_instance_id /\ r.dag_job_id = dag_job_id}

\* C25 (metrics upsert uniqueness): the store holds at most one JobMetrics
\* row per (job instance, external job id); process() of a monitoring event
\* inserts a row when the pair has none, replaces the values of the pair's
\* row and keeps its surrogate id when it has one, and leaves the table as it
\* is when no job instance is found
C25_MetricsUpsert ==
    [][\A R \in MetricsAlphabet :
          (R.event = "stampede.job.monitoring" /\ last' = R
           /\ remaining' = remaining - 1) =>
             /\ \A r1, r2 \in db'.job_metrics :
                   (r1.job_instance_id = r2.job_instance_id
                    /\ r1.dag_job_id = r2.dag_job_id) => r1 = r2
             /\ IF MonitoredInstances(db, R) = {}
                THEN db'.job_metrics = db.job_metrics
                ELSE \E ji \in MonitoredInstances(db, R) :
                        LET old == MetricsOf(db, ji.job_instance_id, R.job_id)
                            new == MetricsOf(db', ji.job_instance_id, R.job_id)
                        IN  /\ db'.job_metrics \ new = db.job_metrics \ old
                            /\ Cardinality(new) = 1
                            /\ \A r \in new : r.metric = R.metric
                            /\ old # {} =>
                                  {r.job_metrics_id : r \in new}
                                      = {r.job_metrics_id : r \in old}]_vars

\* two measurements for the same instance were delivered: the second one has
\* replaced the values of the row the first one inserted
C25_Witness ==
    /\ Len(fed) >= 2
    /\ fed[Len(fed) - 1] = Monitoring("W1", "job1", "s1", 1)
    /\ fed[Len(fed)] = Monitoring("W1", "job1", "s1", 2)
    /\ Cardinality(db.job_metrics) = 1
    /\ \A r \in db.job_metrics : r.metric = 2 /\ r.job_metrics_id = 1

(***************************************************************************)
(* Host mapping per job instance, over the end-to-end host scenario.       *)
(***************************************************************************)
\* the host events delivered so far that name the job J of the workflow U
HostEventsOf(U, J) ==
    {i \in 1 .. Len(fed) :
        /\ fed[i].event = "stampede.job_inst.host.info"
        /\ fed[i].xwf_id = U
        /\ fed[i].job_id = J}

\* the first host event delivered for the job J of the workflow U
FirstHostEvent(U, J) == fed[MinOf(HostEventsOf(U, J))]

\* the job instance of the host_cache key k references the host row of the
\* first host event delivered for it
ReferencesFirstHost(k) ==
    \E ji \in db.job_instance : \E j \in db.job : \E w \in db.workflow :
        /\ ji.job_id = k[1] /\ ji.job_submit_seq = k[2]
        /\ j.job_id = k[1] /\ w.wf_id = j.wf_id
        /\ HostEventsOf(w.wf_uuid, j.exec_job_id) # {}
        /\ \E h \in HostRows(w.root_wf_id, FirstHostEvent(w.wf_uuid, j.exec_job_id).shi) :
               ji.host_id = h.host_id

\* C26 (host mapping de-duplication): while the loader runs, the mapping
\* updates applied are one per (job id, submission sequence) in host_cache,
\* whatever the number of host events delivered for the instance, and the
\* instance of every such key references the host row of the (root workflow,
\* site, hostname, ip) of the first host event delivered for it
C26_HostMappingOnce ==
    exc = "" =>
        /\ ever.mapped = Cardinality(DOMAIN host_cache)
        /\ \A k \in DOMAIN host_cache : ReferencesFirstHost(k)

\* immediate mode: W1's instance reported host A and then host B; both host
\* rows are stored, one mapping update was applied and the instance
\* references the row of host A
C26_Witness ==
    /\ ~batch
    /\ exc = ""
    /\ fed = <<HostInfo("W1", "job1", <<"siteA", "hostA", "10.0.0.1">>),
               HostInfo("W1", "job1", <<"siteB", "hostB", "10.0.0.2">>)>>
    /\ HostRows(RootIdOf("W1"), <<"siteB", "hostB", "10.0.0.2">>) # {}
    /\ ever.mapped = 1
    /\ InstanceOf("W1", "job1") \subseteq MappedInstances(<<"siteA", "hostA", "10.0.0.1">>)
    /\ InstanceOf("W1", "job1") # {}

(***************************************************************************)
(* The connection.  The store holds W1, its job job1 and the instance      *)
(* (job1, 0); the feeder delivers the job again, a host of the instance    *)
(* and static.end, in either write mode; the store answers the accesses of *)
(* the call as the environment chooses: there is no outage, or one that    *)
(* begins at one of the first MaxAttempts accesses and ends within them,   *)
(* or one that begins there and does not end.  The accesses that can fail  *)
(* are the connection checks, the reconnects and the commits that write    *)
(* rows; queries succeed.                                                  *)
(***************************************************************************)
\* the store is down from access a for k accesses
Outage(a, k) == [todo |-> [i \in 1 .. MaxAttempts |-> ~(a <= i /\ i < a + k)], rest |-> TRUE]

\* the store is down from access a on
Unreachable(a) == [todo |-> [i \in 1 .. MaxAttempts |-> i < a], rest |-> FALSE]

Nets ==
    {AlwaysUp}
    \cup {Outage(a, k) : a \in 1 .. MaxAttempts, k \in 1 .. MaxAttempts}
    \cup {Unreachable(a) : a \in 1 .. MaxAttempts}

\* records delivered where the connection is concerned
ConnRecords == MaxRecords - 1

ConnSeed == StoreAfter(<<RootPlan("W1"), JobInfo("W1", "job1"), SubmitStart("W1")>>)

ConnAlphabet ==
    {JobInfo("W1", "job1"), StaticEnd,
     HostInfo("W1", "job1", <<"siteA", "hostA", "10.0.0.1">>)}

InitConn == \E b \in BOOLEAN : InitWith(ConnSeed, b, ConnRecords)

\* process(linedata) while the store answers as n says
ProcessOn(linedata, n) ==
    /\ Running
    /\ remaining > 0
    /\ \E t \in {process([Loader EXCEPT !.net = n], linedata)} :
          /\ Becomes([t EXCEPT !.obs.net = n])
          /\ ever' = [ever EXCEPT !.flush = @ \/ t.obs.nflush > 0,
                                  !.mapped = @ + t.obs.mapped]
    /\ last' = linedata
    /\ remaining' = remaining - 1
    /\ fed' = Append(fed, linedata)
    /\ UNCHANGED shadow

\* finish() while the store answers as n says
FinishOn(n) ==
    /\ Running
    /\ \E t \in {finish([Loader EXCEPT !.net = n])} :
          /\ Becomes([t EXCEPT !.obs.net = n])
          /\ ever' = [ever EXCEPT !.mapped = @ + t.obs.mapped]
    /\ last' = FinishLD
    /\ UNCHANGED <<remaining, fed, shadow>>

NextConn ==
    \/ \E R \in ConnAlphabet : \E n \in Nets : ProcessOn(R, n)
    \/ \E n \in Nets : FinishOn(n)
    \/ Tick

SpecConn == InitConn /\ [][NextConn]_vars

\* C27 (bounded connection retry): every call of check_connection makes at
\* most two backoff waits, goes at most one nesting level down and returns
C27_BoundedReconnect ==
    /\ exc # "RuntimeError"
    /\ \A i \in 1 .. Len(obs.guard) : obs.guard[i].waits <= 2 /\ obs.guard[i].depth <= 1

\* the call lost the connection at a commit of a flush: the bulk commit of
\* line 339, a commit of individual_commit or the commit of line 362
FlushCommits == {"commit", "individual_commit", "last_commit"}
LostAtFlushCommit == \E i \in 1 .. Len(obs.lost) : obs.lost[i] \in FlushCommits

\* the store holds a row with the natural key of the insert o: o was
\* committed, or refused because the row was there
InStore(o) == \E r \in db[o.table] : SameKey(o.table, r, o.row)

\* C28 (flush completes after reconnect): in batched mode, after a call whose
\* flush lost the connection at a commit while the outage was finite, every
\* row the flush was given is in the store (committed, or refused and logged
\* because its key was there) and all buffers are empty
C28_FlushCompletesAfterReconnect ==
    (batch /\ obs.nflush > 0 /\ LostAtFlushCommit /\ obs.net.rest) =>
        /\ batch_cache = EmptyBatchCache
        /\ \A i \in 1 .. Len(obs.flushed) : InStore(obs.flushed[i])

\* the positions of the step w in the steps of the last call
StepsAt(w) == {i \in 1 .. Len(obs.steps) : obs.steps[i] = w}

\* the last call dispatched its record only after a connection check
GuardBeforeDispatch ==
    \A i \in StepsAt("dispatch") : i > 1 /\ obs.steps[i - 1] = "check_connection@process"

\* C29 as stated (connection check points): in immediate mode the guard runs
\* before every dispatch of a record; in batched mode every run of the guard
\* is the one of hard_flush
C29_CheckPointsAsStated ==
    /\ ~batch => GuardBeforeDispatch
    /\ batch => \A i \in 1 .. Len(obs.guard) : obs.guard[i].site = "hard_flush"

\* C29 amended: in immediate mode the guard runs before every dispatch of a
\* record; in batched mode the guard runs at the start of every hard_flush
\* and, besides, in the except clause of process() after the handler lost
\* the connection, before the record is dispatched again, and nowhere else
C29_CheckPoints ==
    /\ ~batch => GuardBeforeDispatch
    /\ batch =>
        /\ \A i \in 1 .. Len(obs.guard) : obs.guard[i].site \in {"hard_flush", "except"}
        /\ \A i \in StepsAt("hard_flush") :
              i < Len(obs.steps) /\ obs.steps[i + 1] = "check_connection@hard_flush"
        /\ \A i \in StepsAt("check_connection@hard_flush") :
              i > 1 /\ obs.steps[i - 1] = "hard_flush"
        /\ \A i \in StepsAt("check_connection@except") :
              /\ obs.lost # <<>>
              /\ i > 1 /\ obs.steps[i - 1] \in {"dispatch", "check_connection@hard_flush"}
              /\ \/ i = Len(obs.steps) /\ exc = "RuntimeError"
                 \/ i < Len(obs.steps) /\ obs.steps[i + 1] = "dispatch"

\* batched mode: the flush of a static.end handler lost the connection, the
\* except clause of process() ran the guard, the record was dispatched again
\* and the call returned
C29_Witness ==
    /\ batch
    /\ exc = ""
    /\ last.event = "stampede.static.end"
    /\ StepsAt("check_connection@except") # {}
    /\ Cardinality(StepsAt("dispatch")) = 2
    /\ StepsAt("hard_flush.end") # {}

(***************************************************************************)
(* The resolvers.  The store starts empty; the feeder delivers the plans   *)
(* of W1 and of its sub-workflow W2, a job and a submit.start in any       *)
(* order, in either write mode, and between two records the resolvers are  *)
(* called as the handlers call them; last holds the call and what it       *)
(* returned.                                                               *)
(***************************************************************************)
ResolveAlphabet ==
    {RootPlan("W1"), SubPlan("W2", "W1"), JobInfo("W1", "job1"), SubmitStart("W1")}

InitResolve == \E b \in BOOLEAN : InitWith(EmptyDb, b, MaxRecords)

\* the mapper object of a job-instance event of job1, submission 0, of U
InstanceObj(U) == Obj("job_instance", SubmitStart(U), NoRow)

\* one call of a resolver; r is the state and the value it returns
ResolverCall(name, key, r) ==
    /\ Running
    /\ Becomes(r.s)
    /\ last' = [event |-> name, key |-> key, v |-> r.v]
    /\ UNCHANGED <<remaining, ever, fed, shadow>>

ResolveWf(U) == ResolverCall("wf_uuid_to_id", U, wf_uuid_to_id(Enter(Loader), U))

ResolveRoot(U) == ResolverCall("wf_uuid_to_root_id", U, wf_uuid_to_root_id(Enter(Loader), U))

ResolveJob(w) ==
    ResolverCall("get_job_id", <<w, "job1">>, get_job_id(Enter(Loader), w, "job1"))

ResolveInstance(U) ==
    ResolverCall("get_job_instance_id", U, get_job_instance_id(Enter(Loader), InstanceObj(U), FALSE))

NextResolve ==
    \/ \E R \in ResolveAlphabet : Deliver(R)
    \/ \E U \in Uuids : ResolveWf(U)
    \/ \E U \in Uuids : ResolveRoot(U)
    \/ \E w \in {None, 1, 2} : ResolveJob(w)
    \/ \E U \in Uuids : ResolveInstance(U)

SpecResolve == InitResolve /\ [][NextResolve]_vars

\* the rows of the store that a resolver call looks for, and the cache and
\* the key it uses
WfRows(U) == {r \in db.workflow : r.wf_uuid = U}
JobRows(w, J) == {r \in db.job : r.wf_id = w /\ r.exec_job_id = J}
InstanceRows(U) ==
    {ji \in db.job_instance :
        /\ ji.job_submit_seq = 0
        /\ \E w \in WfRows(U) : \E j \in JobRows(w.wf_id, "job1") : ji.job_id = j.job_id}
InstanceKeys(U) ==
    {<<j.job_id, 0>> : j \in UNION {JobRows(w.wf_id, "job1") : w \in WfRows(U)}}

Caches == <<wf_id_cache, root_wf_id_cache, job_id_cache, job_instance_id_cache>>

\* a resolver call with a key that is not in the cache: found is the set of
\* ids of the matching rows; one match is cached under k and returned, zero
\* or several matches return None, raise nothing and change no cache
Lookup(name, cache, cacheAfter, k, found) ==
    (last'.event = name /\ k \notin DOMAIN cache) =>
        IF Cardinality(found) = 1
        THEN /\ k \in DOMAIN cacheAfter
             /\ cacheAfter[k] = One(found)
             /\ last'.v = One(found)
        ELSE /\ last'.v = None
             /\ exc' = ""
             /\ Caches' = Caches

NoNullCached(cache) == \A k \in DOMAIN cache : cache[k] # None

\* C30 (resolvers cache only found values): each of the four resolvers, for a
\* key that is not cached, caches and returns the id of the one matching
\* row, and with zero or several matches returns None, raises nothing and
\* leaves every cache unchanged; no cache ever holds a null id
C30_CacheOnlyFound ==
    [][/\ \A U \in Uuids :
            /\ last'.event = "wf_uuid_to_id" /\ last'.key = U =>
                  Lookup("wf_uuid_to_id", wf_id_cache, wf_id_cache', U,
                         {r.wf_id : r \in WfRows(U)})
            /\ last'.event = "wf_uuid_to_root_id" /\ last'.key = U =>
                  Lookup("wf_uuid_to_root_id", root_wf_id_cache, root_wf_id_cache', U,
                         {r.root_wf_id : r \in WfRows(U)})
            /\ last'.event = "get_job_instance_id" /\ last'.key = U =>
                  \A k \in InstanceKeys(U) :
                      Lookup("get_job_instance_id", job_instance_id_cache,
                             job_instance_id_cache', k,
                             {r.job_instance_id : r \in InstanceRows(U)})
       /\ \A w \in {None, 1, 2} :
            last'.event = "get_job_id" /\ last'.key = <<w, "job1">> =>
                Lookup("get_job_id", job_id_cache, job_id_cache', <<w, "job1">>,
                       {r.job_id : r \in JobRows(w, "job1")})
       /\ NoNullCached(wf_id_cache')
       /\ NoNullCached(root_wf_id_cache')
       /\ NoNullCached(job_id_cache')
       /\ NoNullCached(job_instance_id_cache')]_vars

\* the step is process() of a workflow event that returned
IsWorkflowEvent ==
    /\ remaining' = remaining - 1
    /\ last'.event = "stampede.wf.plan"
    /\ exc' = ""

\* the rows of the store after the step with the UUID U
WfRowsAfter(U) == {r \in db'.workflow : r.wf_uuid = U}

\* C31 (workflow root references): after process() of a workflow event, the
\* stored row of a root workflow has its own id as root id, and the stored
\* row of a sub-workflow has the id of the workflow with the declared root
\* UUID as root id, never a null
C31_RootReferences ==
    [][IsWorkflowEvent =>
        \A w \in WfRowsAfter(last'.xwf_id) :
            IF last'.root_xwf_id = last'.xwf_id
            THEN w.root_wf_id = w.wf_id
            ELSE /\ w.root_wf_id # None
                 /\ \E r \in WfRowsAfter(last'.root_xwf_id) : w.root_wf_id = r.wf_id]_vars

(***************************************************************************)
(* Ignored events.  The store holds W1, W2, a job and an instance of each; *)
(* the feeder delivers the four ignored tags between records that fill the *)
(* three buffers and end W1, in either write mode.                         *)
(***************************************************************************)
NoopTags ==
    {"stampede.static.start", "stampede.job_inst.grid.submit.start",
     "stampede.job_inst.globus.submit.start", "stampede.inv.start"}

NoopAlphabet ==
    {LD(tag, "W1") : tag \in NoopTags}
    \cup {XwfEnd("W1"), MainEndOf("W1"),
          HostInfo("W1", "job1", <<"siteA", "hostA", "10.0.0.1">>)}

InitNoop == \E b \in BOOLEAN : InitWith(StoreAfter(TwoWorkflows), b, MaxRecords)

NextNoop ==
    \/ \E R \in NoopAlphabet : Deliver(R)
    \/ Tick
    \/ Finish

SpecNoop == InitNoop /\ [][NextNoop]_vars

\* the step is process() of a record with an ignored tag
IsNoopEvent == remaining' = remaining - 1 /\ last'.event \in NoopTags

\* the step leaves the store, the caches and the three buffers as they were
WritesNothing ==
    /\ db' = db
    /\ pending' = pending
    /\ Caches' = Caches
    /\ host_cache' = host_cache
    /\ hosts_written_cache' = hosts_written_cache
    /\ batch_cache' = batch_cache

\* C32 as stated (no-op events write nothing): process() of an ignored tag
\* leaves the store, all caches and the three buffers unchanged, in both
\* write modes, whatever the loader holds
C32_NoopWritesNothingAsStated == [][IsNoopEvent => WritesNothing /\ exc' = ""]_vars

\* C32 amended: process() of an ignored tag raises nothing and leaves the
\* store, all caches and the three buffers unchanged, unless, in batched
\* mode, check_flush finds the count or the time of a flush reached at the
\* end of the call: then the one flush of the call is that of check_flush
\* and it empties the buffers
C32_NoopWritesNothing ==
    [][IsNoopEvent =>
        /\ exc' = ""
        /\ obs'.nflush = (IF obs'.check.ran THEN 1 ELSE 0)
        /\ ~batch => ~obs'.check.ran
        /\ IF obs'.check.ran THEN batch_cache' = EmptyBatchCache ELSE WritesNothing]_vars

\* batched mode: an ignored event was processed while rows wait in the
\* insert buffer, and no flush ran
C32_Witness ==
    /\ batch
    /\ last.event \in NoopTags
    /\ exc = ""
    /\ ~obs.check.ran
    /\ batch_cache.batch_events # <<>>
    /\ remaining < MaxRecords - 1

(***************************************************************************)
(* The trigger service (trigger.py).  The dispatcher thread alternates     *)
(* between its accounting loop and one message of the mailbox; each        *)
(* trigger thread polls, submits and sleeps until it ends.  The threads    *)
(* share the checkout queue; only the dispatcher touches the running map   *)
(* and writes the state file.                                              *)
(***************************************************************************)
\* messages the clients send in a run
MaxMessages == 3

\* the clock stops here
MaxClock == 3

\* '<ensemble>::<trigger_name>' of the triggers
TriggerNames == {"e::a", "e::b"}

\* the matching file that is written while the service runs
NewFiles == {"f2"}

START(trigger) == [type |-> "START_PATTERN_INTERVAL_TRIGGER", trigger |-> trigger]
STOP(trigger) == [type |-> "STOP_TRIGGER", trigger |-> trigger]
STATUS == [type |-> "STATUS", trigger |-> ""]

\* the dispatcher, its queues, its state file, the trigger threads and what
\* they submitted
Triggers ==
    [mailbox |-> mailbox, running |-> running, checkout |-> checkout,
     running_triggers_file |-> running_triggers_file, threads |-> threads,
     dispatcher |-> dispatcher, submitted |-> submitted]

Serves(T) ==
    /\ mailbox' = T.mailbox
    /\ running' = T.running
    /\ checkout' = T.checkout
    /\ running_triggers_file' = T.running_triggers_file
    /\ threads' = T.threads
    /\ dispatcher' = T.dispatcher
    /\ submitted' = T.submitted

\* lines 211-224
update_state_file(T) == [T EXCEPT !.running_triggers_file = DOMAIN T.running]

\* _PatternIntervalTrigger.shutdown (lines 336-343) of the thread t
shutdown(T, t) ==
    [T EXCEPT !.threads[t].stop_event = TRUE,
              !.checkout = Append(@, T.threads[t].name)]

\* lines 152-166
stop_trigger_handler(T, trigger) ==
    IF trigger \in DOMAIN T.running
    THEN Bind(shutdown(T, T.running[trigger]), LAMBDA T1 :
            [update_state_file([T1 EXCEPT !.running = Drop(@, {trigger})])
                EXCEPT !.dispatcher.logged = "info: stopped trigger"])
    ELSE [T EXCEPT !.dispatcher.logged = "error: TriggerManager does not contain"]

\* _PatternIntervalTrigger.__init__ (lines 231-262)
PatternIntervalTrigger(name) ==
    [name |-> name, pc |-> "created", stop_event |-> FALSE, last_ran |-> 0,
     time_now |-> None]

\* Thread.start(): the thread is at the condition of the loop of run()
start(th) == [th EXCEPT !.pc = "test"]

\* lines 168-204 with a running trigger overwritten
start_pattern_interval_trigger_handler_overwriting(T, name) ==
    [update_state_file([T EXCEPT !.running = Put(@, name, Len(T.threads) + 1)])
        EXCEPT !.threads = Append(@, start(PatternIntervalTrigger(name)))]

\* lines 168-204
start_pattern_interval_trigger_handler(T, name) ==
    IF name \notin DOMAIN T.running
    THEN [update_state_file([T EXCEPT !.running = Put(@, name, Len(T.threads) + 1)])
            EXCEPT !.threads = Append(@, start(PatternIntervalTrigger(name)))]
    ELSE [T EXCEPT !.dispatcher.logged = "error: Cannot overwrite existing trigger"]

\* lines 206-209: the exception leaves run()
status_handler(T) ==
    [T EXCEPT !.dispatcher.exc = "NotImplementedError", !.dispatcher.pc = "dead"]

\* line 139 with a name that is no key of the running map passed over
account_forgiving(T) ==
    IF Head(T.checkout) \in DOMAIN T.running
    THEN [T EXCEPT !.checkout = Tail(@),
                   !.running = Drop(@, {Head(T.checkout)}),
                   !.dispatcher.has_changed = TRUE]
    ELSE [T EXCEPT !.checkout = Tail(@)]

\* line 139, one turn of the accounting loop: a name that is no key of the
\* running map raises KeyError, which leaves run()
account(T) ==
    IF Head(T.checkout) \in DOMAIN T.running
    THEN [T EXCEPT !.checkout = Tail(@),
                   !.running = Drop(@, {Head(T.checkout)}),
                   !.dispatcher.has_changed = TRUE]
    ELSE [T EXCEPT !.checkout = Tail(@),
                   !.dispatcher.exc = "KeyError", !.dispatcher.pc = "dead"]

\* lines 141-142, the end of the accounting loop, up to mailbox.get()
accounted(T) ==
    Bind(IF T.dispatcher.has_changed THEN update_state_file(T) ELSE T, LAMBDA T1 :
        [T1 EXCEPT !.dispatcher.pc = "get"])

\* lines 145-146: a message is taken from the mailbox
get(T) == [T EXCEPT !.mailbox = Tail(@), !.dispatcher.logged = ""]

\* lines 134-136: back at the top of the loop, unless an exception left run()
again(T) ==
    IF T.dispatcher.pc = "dead" THEN T
    ELSE [T EXCEPT !.dispatcher.pc = "accounting", !.dispatcher.has_changed = FALSE]

\* lines 281-287: the matching files of the window, as the scan finds them
input_files(th, files) ==
    {f \in DOMAIN files : th.last_ran <= files[f] /\ files[f] < th.time_now}

\* the command of lines 297-308 and its return code
Submission(t, th, files, returncode) ==
    [trigger |-> t, last_ran |-> th.last_ran, time_now |-> th.time_now,
     inputs |-> {<<f, files[f]>> : f \in input_files(th, files)},
     returncode |-> returncode]

\* line 279: the time of this poll
read_time(T, t, now) == [T EXCEPT !.threads[t].time_now = now, !.threads[t].pc = "scan"]

\* lines 281-331 with last_ran left as it was
poll_without_advance(T, t, files, returncode) ==
    IF input_files(T.threads[t], files) = {}
    THEN [T EXCEPT !.threads[t].pc = "checkout"]
    ELSE [T EXCEPT !.submitted = Append(@, Submission(t, T.threads[t], files, returncode)),
                   !.threads[t].pc = IF returncode # 0 THEN "checkout" ELSE "test"]

\* lines 281-331: the rest of one turn of the loop of run(), the sleep included
poll(T, t, files, returncode) ==
    IF input_files(T.threads[t], files) = {}
    THEN [T EXCEPT !.threads[t].pc = "checkout"]
    ELSE IF returncode # 0
    THEN [T EXCEPT !.submitted = Append(@, Submission(t, T.threads[t], files, returncode)),
                   !.threads[t].pc = "checkout"]
    ELSE [T EXCEPT !.submitted = Append(@, Submission(t, T.threads[t], files, returncode)),
                   !.threads[t].last_ran = T.threads[t].time_now,
                   !.threads[t].pc = "test"]

\* line 278: the condition of the loop
test(T, t) ==
    [T EXCEPT !.threads[t].pc = IF T.threads[t].stop_event THEN "checkout" ELSE "poll"]

\* line 333: the thread advertises its name and ends
checkout_put(T, t) ==
    [T EXCEPT !.checkout = Append(@, T.threads[t].name), !.threads[t].pc = "done"]

\* a step of the trigger service leaves the loader alone
TriggerStep(T) ==
    /\ Serves(T)
    /\ UNCHANGED loader_vars

\* TriggerManager.run (lines 80-98): a client's message reaches the mailbox
Send(msg) ==
    /\ sent < MaxMessages
    /\ sent' = sent + 1
    /\ TriggerStep([Triggers EXCEPT !.mailbox = Append(@, msg)])
    /\ UNCHANGED <<clock, mtime>>

Account ==
    /\ dispatcher.pc = "accounting"
    /\ checkout # <<>>
    /\ TriggerStep(account(Triggers))
    /\ UNCHANGED <<clock, mtime, sent>>

Accounted ==
    /\ dispatcher.pc = "accounting"
    /\ checkout = <<>>
    /\ TriggerStep(accounted(Triggers))
    /\ UNCHANGED <<clock, mtime, sent>>

\* the mailbox holds a message of this type for the dispatcher to take
Takes(type) ==
    /\ dispatcher.pc = "get"
    /\ mailbox # <<>>
    /\ Head(mailbox).type = type

StopTrigger ==
    /\ Takes("STOP_TRIGGER")
    /\ TriggerStep(again(stop_trigger_handler(get(Triggers), Head(mailbox).trigger)))
    /\ UNCHANGED <<clock, mtime, sent>>

StartPatternIntervalTrigger ==
    /\ Takes("START_PATTERN_INTERVAL_TRIGGER")
    /\ TriggerStep(again(start_pattern_interval_trigger_handler(get(Triggers),
                                                                Head(mailbox).trigger)))
    /\ UNCHANGED <<clock, mtime, sent>>

Status ==
    /\ Takes("STATUS")
    /\ TriggerStep(again(status_handler(get(Triggers))))
    /\ UNCHANGED <<clock, mtime, sent>>

\* lines 149-150: queue.Empty after the timeout
Empty ==
    /\ dispatcher.pc = "get"
    /\ mailbox = <<>>
    /\ TriggerStep(again(Triggers))
    /\ UNCHANGED <<clock, mtime, sent>>

\* the thread t is at pc
At(t, pc) == t \in DOMAIN threads /\ threads[t].pc = pc

Test(t) ==
    /\ At(t, "test")
    /\ TriggerStep(test(Triggers, t))
    /\ UNCHANGED <<clock, mtime, sent>>

ReadTime(t) ==
    /\ At(t, "poll")
    /\ TriggerStep(read_time(Triggers, t, clock))
    /\ UNCHANGED <<clock, mtime, sent>>

Poll(t) ==
    /\ At(t, "scan")
    /\ \E returncode \in {0, 1} : TriggerStep(poll(Triggers, t, mtime, returncode))
    /\ UNCHANGED <<clock, mtime, sent>>

Checkout(t) ==
    /\ At(t, "checkout")
    /\ TriggerStep(checkout_put(Triggers, t))
    /\ UNCHANGED <<clock, mtime, sent>>

\* time passes
Advance ==
    /\ clock < MaxClock
    /\ clock' = clock + 1
    /\ UNCHANGED loader_vars
    /\ UNCHANGED <<mailbox, running, checkout, running_triggers_file, threads, dispatcher,
                   mtime, submitted, sent>>

\* a matching file is written at time m
Touch(f, m) ==
    /\ IF f \in DOMAIN mtime THEN mtime[f] # m ELSE TRUE
    /\ mtime' = Put(mtime, f, m)
    /\ UNCHANGED loader_vars
    /\ UNCHANGED <<mailbox, running, checkout, running_triggers_file, threads, dispatcher,
                   clock, submitted, sent>>

\* the loader is not used in a run of the trigger service
InitIdleLoader ==
    /\ InitLoaderOnly(EmptyDb, FALSE, 0)
    /\ shadow = FreshLoader(EmptyDb, FALSE)

ThreadIds == 1 .. MaxMessages

\* one matching file, written before the service starts
OneOldFile == Put(EmptyMap, "f1", 0)

\* a run of the dispatcher: the clients send any messages, the directory does
\* not change
DispatchAlphabet == {START(n) : n \in TriggerNames} \cup {STOP(n) : n \in TriggerNames}
                        \cup {STATUS}

InitDispatch == InitIdleLoader /\ InitTriggers(1, OneOldFile)

NextDispatch ==
    \/ \E msg \in DispatchAlphabet : Send(msg)
    \/ Account
    \/ Accounted
    \/ StopTrigger
    \/ StartPatternIntervalTrigger
    \/ Status
    \/ Empty
    \/ \E t \in ThreadIds : Test(t)
    \/ \E t \in ThreadIds : ReadTime(t)
    \/ \E t \in ThreadIds : Poll(t)
    \/ \E t \in ThreadIds : Checkout(t)

SpecDispatch == InitDispatch /\ [][NextDispatch]_vars

(***************************************************************************)
(* C33.  Trigger accounting never fails: whatever the order of the stop    *)
(* handler, the ends of the trigger threads and the accounting loop, every *)
(* name the accounting loop takes from the checkout queue is a key of the  *)
(* running map when it is deleted, so no KeyError ends the dispatcher      *)
(* thread and the messages that follow are handled.                        *)
(***************************************************************************)
C33_AccountingNeverFails ==
    /\ dispatcher.exc # "KeyError"
    /\ dispatcher.pc = "accounting" /\ checkout # <<>> => Head(checkout) \in DOMAIN running

(***************************************************************************)
(* Live triggers and the running map.                                      *)
(***************************************************************************)
\* the thread t was started, no stop message has stopped it, and it has not
\* left the loop of run()
Live(t) ==
    /\ t \in DOMAIN threads
    /\ ~threads[t].stop_event
    /\ threads[t].pc \in {"test", "poll", "scan"}

\* the running map holds the thread t under its name
Registered(t) ==
    /\ t \in DOMAIN threads
    /\ threads[t].name \in DOMAIN running
    /\ running[threads[t].name] = t

\* a trigger of the same name was started before t and has ended or was stopped
HasPredecessor(t) ==
    \E u \in 1 .. t - 1 : threads[u].name = threads[t].name

IsStartOf(name) ==
    /\ Takes("START_PATTERN_INTERVAL_TRIGGER")
    /\ Head(mailbox).trigger = name
    /\ mailbox' = Tail(mailbox)

CannotOverwrite == "error: Cannot overwrite existing trigger"

(***************************************************************************)
(* C35.  No overwrite of an existing trigger: handling a start message     *)
(* whose name is a key of the running map logs an error, leaves the running *)
(* map and the state file as they were and starts no thread; handling one   *)
(* for a new name adds exactly that key, bound to a new thread, writes the  *)
(* new key set to the state file and starts exactly that one thread.        *)
(***************************************************************************)
C35_NoOverwrite ==
    [][\A name \in TriggerNames :
          IsStartOf(name) =>
              IF name \in DOMAIN running
              THEN /\ dispatcher'.logged = CannotOverwrite
                   /\ running' = running
                   /\ running_triggers_file' = running_triggers_file
                   /\ threads' = threads
              ELSE /\ dispatcher'.logged # CannotOverwrite
                   /\ DOMAIN running' = DOMAIN running \cup {name}
                   /\ \A k \in DOMAIN running : running'[k] = running[k]
                   /\ running_triggers_file' = DOMAIN running'
                   /\ threads' = Append(threads, threads'[Len(threads')])
                   /\ running'[name] = Len(threads')
                   /\ threads'[Len(threads')].name = name
                   /\ threads'[Len(threads')].pc = "test"]_vars

\* a start message for a running trigger has been refused
C35_Witness ==
    /\ dispatcher.logged = CannotOverwrite
    /\ \E t \in DOMAIN threads : Registered(t)

(***************************************************************************)
(* Checkout of the triggers that end by themselves.  The dispatcher thread *)
(* and every trigger thread keep being scheduled: a step that stays        *)
(* possible is taken (mailbox.get() returns after one second at the        *)
(* latest).  A thread that an exception has ended takes no step.           *)
(***************************************************************************)
DispatcherStep == Account \/ Accounted \/ StopTrigger \/ StartPatternIntervalTrigger
                      \/ Status \/ Empty

ThreadStep(t) == Test(t) \/ ReadTime(t) \/ Poll(t) \/ Checkout(t)

SpecDispatchFair ==
    /\ SpecDispatch
    /\ WF_vars(DispatcherStep)
    /\ \A t \in ThreadIds : WF_vars(ThreadStep(t))

\* the thread t has left run() without having been stopped
EndedByItself(t) ==
    /\ t \in DOMAIN threads
    /\ threads[t].pc = "done"
    /\ ~threads[t].stop_event

\* the state file holds the key set of the running map
FileCurrent == running_triggers_file = DOMAIN running

(***************************************************************************)
(* C36.  Stopped triggers are eventually checked out: when a trigger       *)
(* thread has ended by itself (a poll without new input files, or a failed  *)
(* submission), the running map eventually no longer holds it and the state *)
(* file eventually holds the key set of the running map, provided the       *)
(* dispatcher loop keeps being scheduled.                                   *)
(***************************************************************************)
C36_EventuallyCheckedOut ==
    \A t \in ThreadIds :
        EndedByItself(t) ~> (~Registered(t) /\ FileCurrent)

(***************************************************************************)
(* Submission windows.  One trigger name; the clients start and stop it,   *)
(* time passes, one matching file is there from the start and is never     *)
(* touched, and another is written, any number of times, while the trigger *)
(* polls.                                                                  *)
(***************************************************************************)
WindowAlphabet == {START("e::a"), STOP("e::a")}

\* messages the clients send in a run of the windows
WindowMessages == MaxMessages - 1

SendInWindow(msg) == sent < WindowMessages /\ Send(msg)

InitWindows == InitIdleLoader /\ InitTriggers(0, OneOldFile)

NextWindows ==
    \/ \E msg \in WindowAlphabet : SendInWindow(msg)
    \/ Account
    \/ Accounted
    \/ StopTrigger
    \/ StartPatternIntervalTrigger
    \/ Empty
    \/ \E t \in ThreadIds : Test(t)
    \/ \E t \in ThreadIds : ReadTime(t)
    \/ \E t \in ThreadIds : Poll(t)
    \/ \E t \in ThreadIds : Checkout(t)
    \/ Advance
    \/ \E f \in NewFiles : Touch(f, clock)

SpecWindows == InitWindows /\ [][NextWindows]_vars

\* the positions in submitted of the submissions of the thread t
SubmissionsOf(t) == {i \in DOMAIN submitted : submitted[i].trigger = t}

\* j is the submission of its thread that follows i
FollowsAt(i, j) ==
    /\ i < j
    /\ submitted[i].trigger = submitted[j].trigger
    /\ \A k \in i + 1 .. j - 1 : submitted[k].trigger # submitted[i].trigger

\* this step is the thread t passing the condition of its loop
StartsPoll(t) == At(t, "test") /\ threads'[t].pc = "poll"

\* this step is a submission by the thread t
Submits(t) ==
    /\ At(t, "scan")
    /\ Len(submitted') = Len(submitted) + 1
    /\ submitted'[Len(submitted')].trigger = t

\* the matching files with a modification time in [lo, hi), each with that time
InWindow(lo, hi) == {<<f, mtime[f]>> : f \in {g \in DOMAIN mtime : lo <= mtime[g] /\ mtime[g] < hi}}

(***************************************************************************)
(* C37.  Trigger submission windows: each poll submits exactly the         *)
(* matching files whose modification time lies in [last_ran, time_now);    *)
(* last_ran moves, to time_now, only with a successful submission; so the  *)
(* windows of a trigger's successive submissions are contiguous and do not *)
(* overlap, a file with an unchanged modification time is an input of at   *)
(* most one successful submission of a trigger, every submission has an    *)
(* input file, and a trigger passes the condition of its loop no more      *)
(* once shutdown() has set its stop event.                                 *)
(***************************************************************************)
C37_Windows ==
    \A i \in DOMAIN submitted :
        /\ submitted[i].inputs # {}
        /\ submitted[i].last_ran < submitted[i].time_now
        /\ \A p \in submitted[i].inputs :
              submitted[i].last_ran <= p[2] /\ p[2] < submitted[i].time_now
        /\ \A j \in DOMAIN submitted :
              /\ FollowsAt(i, j) =>
                    /\ submitted[i].returncode = 0
                    /\ submitted[j].last_ran = submitted[i].time_now
              /\ (i # j /\ submitted[i].trigger = submitted[j].trigger
                    /\ submitted[i].returncode = 0 /\ submitted[j].returncode = 0) =>
                     submitted[i].inputs \cap submitted[j].inputs = {}

C37_Polls ==
    \A t \in ThreadIds :
        /\ Submits(t) =>
              /\ submitted'[Len(submitted')].last_ran = threads[t].last_ran
              /\ submitted'[Len(submitted')].time_now = threads[t].time_now
              /\ submitted'[Len(submitted')].inputs =
                     InWindow(threads[t].last_ran, threads[t].time_now)
        /\ (At(t, "scan") /\ threads'[t].pc # "scan" /\ ~Submits(t)) =>
              InWindow(threads[t].last_ran, threads[t].time_now) = {}
        /\ (At(t, "poll") /\ threads'[t].pc = "scan") => threads'[t].time_now = clock
        /\ (t \in DOMAIN threads /\ threads'[t].last_ran # threads[t].last_ran) =>
              /\ Submits(t)
              /\ submitted'[Len(submitted')].returncode = 0
              /\ threads'[t].last_ran = threads[t].time_now
        /\ (t \in DOMAIN threads /\ threads[t].stop_event) => ~StartsPoll(t)

C37_SubmissionWindows == []C37_Windows /\ [][C37_Polls]_vars

\* a stopped trigger has made two successful submissions, and a file of the
\* first still has the modification time it had then
C37_Witness ==
    \E i, j \in DOMAIN submitted :
        /\ FollowsAt(i, j)
        /\ submitted[j].returncode = 0
        /\ submitted[i].inputs \cap InWindow(0, MaxClock + 1) # {}
        /\ threads[submitted[i].trigger].stop_event

====
